---- MODULE Spec2Model ----
(***************************************************************************)
(* State-machine model of Backlify's data-access layer, SupabaseService    *)
(* (src/src/services/supabaseService.js): the in-memory fallback store     *)
(* (_queryInMemory) and the query() facade over the remote backend.        *)
(***************************************************************************)
EXTENDS Integers, Sequences, FiniteSets, TLC

(***************************************************************************)
(* Bounds of the model.                                                    *)
(***************************************************************************)
\* Largest number of records a fallback partition or a remote table holds.
MaxRecs == 2
\* Largest number of store-changing _queryInMemory calls in one behaviour.
MaxOps == 3
\* Largest number of query() calls in one behaviour.
MaxCalls == 3

(***************************************************************************)
(* JavaScript values.  A value is a number, a string or NaN; a column that *)
(* a record does not have reads as undefined.                              *)
(***************************************************************************)
Num(n) == [k |-> "num", n |-> n, s |-> ""]
Str(s) == [k |-> "str", n |-> 0, s |-> s]
NaN == [k |-> "nan", n |-> 0, s |-> ""]

\* The strings that convert to a number (ToNumber of any other string is NaN).
NumericStrings == ("" :> 0) @@ ("0" :> 0) @@ ("1" :> 1) @@ ("2" :> 2) @@ ("3" :> 3)

ToNumber(v) ==
    IF v.k = "num" THEN v
    ELSE IF v.k = "str" /\ v.s \in DOMAIN NumericStrings THEN Num(NumericStrings[v.s])
    ELSE NaN

\* a === b of JavaScript, for two defined values.
StrictEq(a, b) == a.k # "nan" /\ a = b

\* a == b of JavaScript, for two defined values.
LooseEq(a, b) ==
    IF a.k = "nan" \/ b.k = "nan" THEN FALSE
    ELSE IF a.k = b.k THEN a = b
    ELSE ToNumber(a).k = "num" /\ ToNumber(a) = ToNumber(b)

\* !v of JavaScript, for a defined value.
Falsy(v) == v.k = "nan" \/ (v.k = "num" /\ v.n = 0) \/ (v.k = "str" /\ v.s = "")

\* Lexicographic rank of the strings of the model.
StrRank == ("" :> 0) @@ ("0" :> 1) @@ ("1" :> 2) @@ ("2" :> 3) @@ ("3" :> 4)
           @@ ("a" :> 5) @@ ("b" :> 6) @@ ("netlify" :> 7) @@ ("p" :> 8) @@ ("x" :> 9)

\* a > b of JavaScript, for two defined values.
JsGt(a, b) ==
    IF a.k = "str" /\ b.k = "str" THEN StrRank[a.s] > StrRank[b.s]
    ELSE /\ ToNumber(a).k = "num"
         /\ ToNumber(b).k = "num"
         /\ ToNumber(a).n > ToNumber(b).n

(***************************************************************************)
(* Records: functions from the columns they have to values.                *)
(***************************************************************************)
EmptyRec == [c \in {} |-> NaN]

\* { ...a, ...b }
Spread(a, b) == [c \in DOMAIN a \cup DOMAIN b |-> IF c \in DOMAIN b THEN b[c] ELSE a[c]]

\* const copy = { ...a }; delete copy[col]
Without(a, col) == [c \in DOMAIN a \ {col} |-> a[c]]

\* Object.entries(where).every(([key, value]) => item[key] == value)
Matches(item, where) ==
    \A c \in DOMAIN where : c \in DOMAIN item /\ LooseEq(item[c], where[c])

RECURSIVE Filter(_, _)
Filter(recs, where) ==
    IF recs = <<>> THEN <<>>
    ELSE IF Matches(Head(recs), where)
         THEN <<Head(recs)>> \o Filter(Tail(recs), where)
         ELSE Filter(Tail(recs), where)

RECURSIVE Reject(_, _)
Reject(recs, where) ==
    IF recs = <<>> THEN <<>>
    ELSE IF Matches(Head(recs), where)
         THEN Reject(Tail(recs), where)
         ELSE <<Head(recs)>> \o Reject(Tail(recs), where)


(***************************************************************************)
(* The fallback store: inMemoryDb (the top-level tables), inMemoryDb.tables*)
(* (schema -> table -> records) and idCounters.                            *)
(***************************************************************************)
\* ['projects', 'deployments']: the tables that never get a project schema.
GlobalTables == {"projects", "deployments"}

\* projectId = null
NoProject == ""

\* `project_${projectId}`
SchemaOf(projectId) == "project_" \o projectId

\* query.limit absent (undefined); 0 is a limit a caller can give.
NoLimit == -1

\* `if (limit)`, `limit && ...`, `limit || 10`: neither absent nor 0
HasLimit(limit) == limit # NoLimit /\ limit # 0

\* query.orderBy absent
NoOrder == [col |-> "", dir |-> ""]

\* method.toLowerCase()
ToLowerCase(method) ==
    CASE method = "INSERT" -> "insert"
      [] method = "SELECT" -> "select"
      [] OTHER -> method

\* A useSchema that holds for every table once a project is given.
UseSchemaAnyTable(table, projectId) == projectId # NoProject

\* const useSchema = projectId && !['projects', 'deployments'].includes(table)
UseSchema(table, projectId) == projectId # NoProject /\ table \notin GlobalTables

\* The store after construction.
InitStore ==
    [db |-> [t \in GlobalTables |-> <<>>],
     tables |-> [s \in {} |-> [t \in {} |-> <<>>]],
     ids |-> [t \in GlobalTables |-> 1]]

HasTable(st, table, projectId) ==
    IF UseSchema(table, projectId)
    THEN /\ SchemaOf(projectId) \in DOMAIN st.tables
         /\ table \in DOMAIN st.tables[SchemaOf(projectId)]
    ELSE table \in DOMAIN st.db

\* The records of the partition that (table, projectId) addresses; none when it
\* does not exist.
Records(st, table, projectId) ==
    IF ~HasTable(st, table, projectId) THEN <<>>
    ELSE IF UseSchema(table, projectId) THEN st.tables[SchemaOf(projectId)][table]
    ELSE st.db[table]

\* The records written under the name of the table alone, whatever the tenant.
WithRecordsShared(st, table, projectId, recs) ==
    [st EXCEPT !.db =
        [t \in DOMAIN st.db \cup {table} |-> IF t = table THEN recs ELSE st.db[t]]]

\* The store with the addressed partition's records replaced (the schema and
\* the table are created when missing).
WithRecords(st, table, projectId, recs) ==
    IF UseSchema(table, projectId)
    THEN LET sn == SchemaOf(projectId)
             old == IF sn \in DOMAIN st.tables THEN st.tables[sn] ELSE [t \in {} |-> <<>>]
             new == [t \in DOMAIN old \cup {table} |-> IF t = table THEN recs ELSE old[t]]
         IN [st EXCEPT !.tables =
                [s \in DOMAIN st.tables \cup {sn} |-> IF s = sn THEN new ELSE st.tables[s]]]
    ELSE [st EXCEPT !.db =
                [t \in DOMAIN st.db \cup {table} |-> IF t = table THEN recs ELSE st.db[t]]]

Max(S) == CHOOSE x \in S : \A y \in S : y <= x

\* Math.max(...records.map(r => r.id)), without the step to the next id.
LastId(recs) ==
    IF \E i \in DOMAIN recs : ToNumber(recs[i]["id"]).k # "num" THEN NaN
    ELSE Num(Max({ToNumber(recs[i]["id"]).n : i \in DOMAIN recs}))

\* Math.max(...records.map(r => r.id)) + 1
NextIdAfter(recs) ==
    IF \E i \in DOMAIN recs : ToNumber(recs[i]["id"]).k # "num" THEN NaN
    ELSE Num(Max({ToNumber(recs[i]["id"]).n : i \in DOMAIN recs}) + 1)

\* !newItem.id
NoId(item) == "id" \notin DOMAIN item \/ Falsy(item["id"])

\* A counter that stands one after the number of records the table holds.
CounterFromRecords(st, table) ==
    IF table \in DOMAIN st.db THEN Len(st.db[table]) + 1 ELSE 1

\* this.idCounters[table] || 1
CounterOf(st, table) ==
    IF table \in DOMAIN st.ids /\ st.ids[table] # 0 THEN st.ids[table] ELSE 1

\* The permutations of 1..n.
Perms(n) == {p \in [1..n -> 1..n] : \A i, j \in 1..n : p[i] = p[j] => i = j}

\* A comparator that orders ascending whatever the direction asked for.
CompareAscending(a, b, ob) ==
    IF ob.col \in DOMAIN a /\ ob.col \in DOMAIN b /\ JsGt(a[ob.col], b[ob.col]) THEN 1 ELSE -1

\* The comparator of results.sort: > 0 puts a after b.
Compare(a, b, ob) ==
    LET defined == ob.col \in DOMAIN a /\ ob.col \in DOMAIN b
    IN IF ob.dir = "asc"
       THEN IF defined /\ JsGt(a[ob.col], b[ob.col]) THEN 1 ELSE -1
       ELSE IF defined /\ JsGt(b[ob.col], a[ob.col]) THEN 1 ELSE -1

\* The comparator puts a strictly ahead of b.
Ahead(a, b, ob) == Compare(a, b, ob) = -1 /\ Compare(b, a, ob) = 1

\* The comparator answers -1 for both orders of a and b: their values are
\* equal, or they cannot be compared (a missing column, a string that is no
\* number against a number).
Tied(a, b, ob) == Compare(a, b, ob) = -1 /\ Compare(b, a, ob) = -1

\* The comparator ranks the records: being ahead and being tied are transitive.
Ranked(recs, ob) ==
    \A i, j, k \in DOMAIN recs :
        /\ (Ahead(recs[i], recs[j], ob) /\ Ahead(recs[j], recs[k], ob))
              => Ahead(recs[i], recs[k], ob)
        /\ (Tied(recs[i], recs[j], ob) /\ Tied(recs[j], recs[k], ob))
              => Tied(recs[i], recs[k], ob)

\* The arrays results.sort(comparator) can leave.  When the comparator ranks
\* the records: every arrangement in which no record stands before one the
\* comparator puts strictly ahead of it; the comparator answers -1 for both
\* orders of two records that tie, so the order of ties is the engine's
\* choice.  When it does not rank them (values that cannot be compared), the
\* answers contradict each other and the arrangement is the engine's choice.
SortOutcomes(recs, ob) ==
    LET n == Len(recs)
        arrange(p) == [i \in 1..n |-> recs[p[i]]]
        ok(s) == \A i, j \in 1..n : i < j => ~Ahead(s[j], s[i], ob)
    IN IF Ranked(recs, ob)
       THEN {arrange(p) : p \in {q \in Perms(n) : ok(arrange(q))}}
       ELSE {arrange(p) : p \in Perms(n)}

\* results.slice(0, limit) when limit && results.length > limit
Limited(recs, limit) ==
    IF HasLimit(limit) /\ Len(recs) > limit THEN SubSeq(recs, 1, limit) ELSE recs

\* What a call leaves and returns: the store, the returned array (array is
\* FALSE when the value returned is not an array), or that it threw.
Outcome(st, ret) == [st |-> st, ret |-> ret, array |-> TRUE, threw |-> FALSE]
NotAnArray(st) == [st |-> st, ret |-> <<>>, array |-> FALSE, threw |-> FALSE]
Thrown(st) == [st |-> st, ret |-> <<>>, array |-> TRUE, threw |-> TRUE]

\* case 'select'
MemSelect(st, table, q) ==
    LET stored == Records(st, table, q.projectId)
        filtered == IF DOMAIN q.where # {} THEN Filter(stored, q.where) ELSE stored
        \* the stored array itself is sorted when nothing was filtered out of it
        inPlace == DOMAIN q.where = {} /\ HasTable(st, table, q.projectId)
    IN IF q.orderBy = NoOrder
       THEN {Outcome(st, Limited(filtered, q.limit))}
       ELSE {Outcome(IF inPlace THEN WithRecords(st, table, q.projectId, s) ELSE st,
                     Limited(s, q.limit)) : s \in SortOutcomes(filtered, q.orderBy)}

\* case 'insert'
MemInsert(st, table, q) ==
    LET recs == Records(st, table, q.projectId)
    IN IF UseSchema(table, q.projectId)
       THEN LET newItem == IF NoId(q.data)
                           THEN Spread(q.data, [c \in {"id"} |->
                                    IF Len(recs) > 0 THEN NextIdAfter(recs) ELSE Num(1)])
                           ELSE q.data
            IN {Outcome(WithRecords(st, table, q.projectId, Append(recs, newItem)),
                        <<newItem>>)}
       ELSE LET id == CounterOf(st, table)
                newItem == IF NoId(q.data)
                           THEN Spread(q.data, [c \in {"id"} |-> Num(id)])
                           ELSE q.data
                st1 == WithRecords(st, table, q.projectId, Append(recs, newItem))
                st2 == IF NoId(q.data)
                       THEN [st1 EXCEPT !.ids =
                               [t \in DOMAIN st.ids \cup {table} |->
                                   IF t = table THEN id + 1 ELSE st.ids[t]]]
                       ELSE st1
            IN {Outcome(st2, <<newItem>>)}

\* case 'update' with the data put in place of the matching item: data instead
\* of { ...item, ...data }.
MemUpdateReplace(st, table, q) ==
    IF ~HasTable(st, table, q.projectId) THEN {Outcome(st, <<>>)}
    ELSE LET recs == Records(st, table, q.projectId)
             new == [i \in DOMAIN recs |->
                        IF Matches(recs[i], q.where) THEN q.data ELSE recs[i]]
             hit == Filter(recs, q.where)
         IN {Outcome(WithRecords(st, table, q.projectId, new), [i \in DOMAIN hit |-> q.data])}

\* case 'update'
MemUpdate(st, table, q) ==
    IF ~HasTable(st, table, q.projectId) THEN {Outcome(st, <<>>)}
    ELSE LET recs == Records(st, table, q.projectId)
             new == [i \in DOMAIN recs |->
                        IF Matches(recs[i], q.where) THEN Spread(recs[i], q.data)
                        ELSE recs[i]]
             hit == Filter(recs, q.where)
             updatedItems == [i \in DOMAIN hit |-> Spread(hit[i], q.data)]
         IN {Outcome(WithRecords(st, table, q.projectId, new), updatedItems)}

\* case 'delete': a record goes only under a where clause that has a condition.
MemDelete(st, table, q) ==
    IF ~HasTable(st, table, q.projectId) THEN {Outcome(st, <<>>)}
    ELSE LET recs == Records(st, table, q.projectId)
             deletedItems == IF DOMAIN q.where # {} THEN Filter(recs, q.where) ELSE <<>>
             kept == IF DOMAIN q.where # {} THEN Reject(recs, q.where) ELSE recs
         IN {Outcome(WithRecords(st, table, q.projectId, kept), deletedItems)}

\* this.inMemoryDb[table] for the table name "tables" is the object that holds
\* the schemas, which is no array.
SchemasKey == "tables"

OnSchemas(table, projectId) == ~UseSchema(table, projectId) /\ table = SchemasKey

\* The four cases on this.inMemoryDb.tables: the object is truthy, so it is taken
\* for the table; filter, sort, push and map are not functions of it, and a call
\* of one throws a TypeError.  A select with no where and no orderBy calls none
\* and returns the object; an insert without id has taken an id from the counter
\* before push throws.
MemOnSchemas(st, table, q) ==
    CASE ToLowerCase(q.method) = "select" ->
            IF DOMAIN q.where # {} \/ q.orderBy # NoOrder THEN {Thrown(st)}
            ELSE {NotAnArray(st)}
      [] ToLowerCase(q.method) = "insert" ->
            IF NoId(q.data)
            THEN {Thrown([st EXCEPT !.ids =
                            [t \in DOMAIN st.ids \cup {table} |->
                                IF t = table THEN CounterOf(st, table) + 1 ELSE st.ids[t]]])}
            ELSE {Thrown(st)}
      [] OTHER -> {Thrown(st)}

\* _queryInMemory(table, query): the outcomes (store, returned array, thrown)
\* it can have on store st.
QueryInMemory(st, table, q) ==
    CASE ToLowerCase(q.method) \notin {"select", "insert", "update", "delete"} -> {Thrown(st)}
      [] OTHER ->
         IF OnSchemas(table, q.projectId) THEN MemOnSchemas(st, table, q)
         ELSE CASE ToLowerCase(q.method) = "select" -> MemSelect(st, table, q)
                [] ToLowerCase(q.method) = "insert" -> MemInsert(st, table, q)
                [] ToLowerCase(q.method) = "update" -> MemUpdate(st, table, q)
                [] OTHER -> MemDelete(st, table, q)

(***************************************************************************)
(* The remote backend, seen through this.supabase.from(table): one row     *)
(* list per table name and the serial that numbers rows inserted without   *)
(* an id.  A request is answered with rows or with an error.               *)
(***************************************************************************)
\* query.offset absent (undefined); 0 is an offset a caller can give.
NoOffset == -1

\* `if (offset)`: neither absent nor 0
HasOffset(offset) == offset # NoOffset /\ offset # 0

\* The page size of range() when no limit is given: offset + (limit || 10) - 1
DefaultPage == 10

NoError == [code |-> "", find |-> FALSE, col |-> ""]

\* error.code === 'PGRST204', message "Could not find the '<col>' column of ..."
UnknownColumn(col) == [code |-> "PGRST204", find |-> TRUE, col |-> col]

\* error.code === 'PGRST204' with a message the column pattern does not match
SchemaCacheError == [code |-> "PGRST204", find |-> TRUE, col |-> ""]

\* any other failure: network, timeout, missing relation, rejected promise
Transient == [code |-> "other", find |-> FALSE, col |-> ""]

Request(method, where, data, limit, orderBy, offset) ==
    [method |-> method, where |-> where, data |-> data, limit |-> limit,
     orderBy |-> orderBy, offset |-> offset]

Min(a, b) == IF a < b THEN a ELSE b

\* No last row: the request asks for every row from the first one of the range.
Unbounded == -1

\* The rows, counted from 0 and both ends included, that the select request
\* asks for: .limit(limit) when limit, then
\* .range(offset, offset + (limit || 10) - 1) when offset.
RangeOf(limit, offset) ==
    IF HasOffset(offset)
    THEN [from |-> offset,
          to |-> offset + (IF HasLimit(limit) THEN limit ELSE DefaultPage) - 1]
    ELSE IF HasLimit(limit) THEN [from |-> 0, to |-> limit - 1]
    ELSE [from |-> 0, to |-> Unbounded]

\* The rows of range [from, to] among rows.
RowsOf(rows, range) ==
    SubSeq(rows, range.from + 1,
           IF range.to = Unbounded THEN Len(rows) ELSE Min(Len(rows), range.to + 1))

\* The page of rows the backend returns for limit and offset.
RemotePage(rows, limit, offset) == RowsOf(rows, RangeOf(limit, offset))

\* What the backend with rows `rows` and serial `serial` does with an accepted
\* request: [rows, serial, data], data being the rows it returns.
RemoteApply(rows, serial, req) ==
    CASE req.method = "select" ->
            [rows |-> rows, serial |-> serial,
             data |-> RemotePage(Filter(rows, req.where), req.limit, req.offset)]
      [] req.method = "insert" ->
            LET row == IF "id" \in DOMAIN req.data THEN req.data
                       ELSE Spread(req.data, [c \in {"id"} |-> Num(serial)])
            IN [rows |-> Append(rows, row),
                serial |-> IF "id" \in DOMAIN req.data THEN serial ELSE serial + 1,
                data |-> <<row>>]
      [] req.method = "update" ->
            LET hit == Filter(rows, req.where)
            IN [rows |-> [i \in DOMAIN rows |->
                            IF Matches(rows[i], req.where) THEN Spread(rows[i], req.data)
                            ELSE rows[i]],
                serial |-> serial,
                data |-> [i \in DOMAIN hit |-> Spread(hit[i], req.data)]]
      [] OTHER ->
            [rows |-> Reject(rows, req.where), serial |-> serial,
             data |-> Filter(rows, req.where)]

(***************************************************************************)
(* State.                                                                  *)
(***************************************************************************)
VARIABLES
    inMemoryDb,   \* this.inMemoryDb: [db: table -> records, tables: schema -> table -> records]
    idCounters,   \* this.idCounters: table -> next id
    supabase,     \* whether this.supabase holds a client
    remote,       \* the remote backend: table -> [rows, serial]
    call,         \* the query() call in flight, or the one that returned last
    ret,          \* the direct _queryInMemory call that returned last
    tracked,      \* the records fallback inserts returned that no update or delete has matched since
    run,          \* the ids given by the inserts without id that filled an empty partition back to back
    inserted,     \* <<tenant, table, record>> for every record a query() insert returned
    usedTables,   \* the table names query() has been called with
    nops,         \* number of store-changing calls so far
    columns,      \* <<schema, table>> -> the columns of this.inMemoryDb.tables[schema][table]
    ddl,          \* the schema operation that returned last
    autoIds,      \* <<table, projectId>> -> the ids inserts without id were given, in order
    inflight      \* the query() calls that await the answer of the backend

vars == <<inMemoryDb, idCounters, supabase, remote, call, ret, tracked, run, inserted,
          usedTables, nops, columns, ddl, autoIds, inflight>>

facadeVars == <<supabase, remote, call, inserted, usedTables>>

\* The fallback store as one value.
Store == [db |-> inMemoryDb.db, tables |-> inMemoryDb.tables, ids |-> idCounters]

(***************************************************************************)
(* The inputs of the model.                                                *)
(***************************************************************************)
TableNames == {"deployments", "items", SchemasKey}
Methods == {"select", "insert", "update", "delete"}

Rec1(c, v) == [x \in {c} |-> v]
Rec2(c, v, d, w) == [x \in {c, d} |-> IF x = c THEN v ELSE w]

Wheres == {EmptyRec, Rec1("id", Num(1)), Rec1("id", Str("1")), Rec1("name", Str("a"))}

Payloads ==
    {Rec1("name", Str("a")), Rec1("name", Str("b")),
     Rec2("id", Num(1), "name", Str("a")),
     Rec2("id", Num(0), "name", Str("b")),
     Rec1("id", Str("p"))}

Updates == {Rec1("name", Str("b")), Rec1("id", Num(1))}

\* The query object of a call; an option the caller leaves out is absent.
Query(method, where, data, limit, orderBy, offset, projectId) ==
    [method |-> method, where |-> where, data |-> data, limit |-> limit,
     orderBy |-> orderBy, offset |-> offset, projectId |-> projectId]

NoQuery == Query("", EmptyRec, EmptyRec, NoLimit, NoOrder, NoOffset, NoProject)

NoRet == [op |-> "none", table |-> "", q |-> NoQuery, pre |-> <<>>, preIds |-> 0,
          result |-> <<>>, array |-> TRUE, threw |-> FALSE]

NoRun == [on |-> FALSE, table |-> "", projectId |-> NoProject, ids |-> <<>>, origin |-> 0]

NoCall ==
    [pc |-> "idle", table |-> "", query |-> NoQuery, tenant |-> NoProject,
     sent |-> <<>>, errs |-> <<>>, fq |-> NoQuery, served |-> "none",
     result |-> <<>>, array |-> TRUE, threw |-> FALSE, fresh |-> FALSE,
     before |-> InitStore, remoteBefore |-> [rows |-> <<>>, serial |-> 1]]

\* No fallback table has a columns property.
NoColumns == [pair \in {} |-> {}]

NoDdl ==
    [op |-> "none", table |-> "", projectId |-> NoProject, schema |-> "", threw |-> FALSE,
     issued |-> <<>>, rpc |-> "none",
     result |-> [object |-> FALSE, success |-> FALSE, message |-> FALSE, inMemory |-> "absent"]]

Init ==
    /\ inMemoryDb = [db |-> InitStore.db, tables |-> InitStore.tables]
    /\ idCounters = InitStore.ids
    /\ supabase \in BOOLEAN
    /\ remote = [t \in TableNames |-> [rows |-> <<>>, serial |-> 1]]
    /\ call = NoCall
    /\ ret = NoRet
    /\ tracked = {}
    /\ run = NoRun
    /\ inserted = {}
    /\ usedTables = {}
    /\ nops = 0
    /\ columns = NoColumns
    /\ ddl = NoDdl
    /\ autoIds = [pair \in {} |-> <<>>]
    /\ inflight = {}

(***************************************************************************)
(* Direct calls of _queryInMemory(table, query).                           *)
(***************************************************************************)
SamePartition(t1, p1, t2, p2) ==
    /\ t1 = t2
    /\ UseSchema(t1, p1) = UseSchema(t2, p2)
    /\ UseSchema(t1, p1) => p1 = p2

\* Whether the call (table, q) changed or removed record rec of (t, p).
Touches(table, q, t, p, rec) ==
    /\ SamePartition(table, q.projectId, t, p)
    /\ ToLowerCase(q.method) \in {"update", "delete"}
    /\ Matches(rec, q.where)
    /\ ToLowerCase(q.method) = "delete" => DOMAIN q.where # {}

\* The tracked records after the call (table, q) that returned out: the record
\* an insert returned joins them, the ones an update or delete matched leave.
TrackAfter(table, q, out) ==
    LET kept == {t \in tracked : ~Touches(table, q, t.table, t.projectId, t.rec)}
    IN IF ToLowerCase(q.method) = "insert" /\ ~out.threw
       THEN kept \cup {[table |-> table, projectId |-> q.projectId, rec |-> out.ret[1]]}
       ELSE kept

\* The run of inserts without id after the call (table, q) that returned out:
\* such an insert into an empty partition starts a run, the next ones into the
\* same partition continue it, any other call ends it.
RunAfter(table, q, out) ==
    IF ToLowerCase(q.method) = "insert" /\ "id" \notin DOMAIN q.data /\ ~out.threw
    THEN IF Records(Store, table, q.projectId) = <<>>
         THEN [on |-> TRUE, table |-> table, projectId |-> q.projectId,
               ids |-> <<out.ret[1]["id"]>>,
               origin |-> IF UseSchema(table, q.projectId) THEN 1 ELSE CounterOf(Store, table)]
         ELSE IF run.on /\ SamePartition(table, q.projectId, run.table, run.projectId)
         THEN [run EXCEPT !.ids = Append(@, out.ret[1]["id"])]
         ELSE NoRun
    ELSE NoRun

\* The store and the bookkeeping after _queryInMemory(table, q) had outcome out.
MemStep(table, q, out) ==
    /\ inMemoryDb' = [db |-> out.st.db, tables |-> out.st.tables]
    /\ idCounters' = out.st.ids
    /\ ret' = [op |-> "mem", table |-> table, q |-> q,
               pre |-> Records(Store, table, q.projectId),
               preIds |-> CounterOf(Store, table),
               result |-> out.ret, array |-> out.array, threw |-> out.threw]
    /\ tracked' = TrackAfter(table, q, out)
    /\ run' = RunAfter(table, q, out)
    /\ UNCHANGED <<facadeVars, columns, ddl, inflight>>

MemReturn(table, q, out) == MemStep(table, q, out) /\ UNCHANGED autoIds

\* The (table, projectId) pairs _queryInMemory is called with: a bookkeeping
\* table without and with a project, and a resource table with a project.
MemTargets == {<<"deployments", NoProject>>, <<"deployments", "A">>, <<"items", "A">>}

MemSelectCall ==
    \E target \in MemTargets, where \in Wheres :
        LET table == target[1]
            projectId == target[2]
            q == Query("select", where, EmptyRec, NoLimit, NoOrder, NoOffset, projectId)
        IN \E out \in QueryInMemory(Store, table, q) :
              /\ MemReturn(table, q, out)
              /\ UNCHANGED nops

MemInsertCall ==
    \E target \in MemTargets, data \in Payloads :
        LET table == target[1]
            projectId == target[2]
            q == Query("insert", EmptyRec, data, NoLimit, NoOrder, NoOffset, projectId)
        IN /\ nops < MaxOps
           /\ Len(Records(Store, table, projectId)) < MaxRecs
           /\ \E out \in QueryInMemory(Store, table, q) :
                 /\ MemReturn(table, q, out)
                 /\ nops' = nops + 1

MemUpdateCall ==
    \E target \in MemTargets, where \in Wheres, data \in Updates :
        LET table == target[1]
            projectId == target[2]
            q == Query("update", where, data, NoLimit, NoOrder, NoOffset, projectId)
        IN /\ nops < MaxOps
           /\ \E out \in QueryInMemory(Store, table, q) :
                 /\ MemReturn(table, q, out)
                 /\ nops' = nops + 1

MemDeleteCall ==
    \E target \in MemTargets, where \in Wheres :
        LET table == target[1]
            projectId == target[2]
            q == Query("delete", where, EmptyRec, NoLimit, NoOrder, NoOffset, projectId)
        IN /\ nops < MaxOps
           /\ \E out \in QueryInMemory(Store, table, q) :
                 /\ MemReturn(table, q, out)
                 /\ nops' = nops + 1

NextMem == MemSelectCall \/ MemInsertCall \/ MemUpdateCall \/ MemDeleteCall

InitMem == Init /\ supabase = TRUE

SpecMem == InitMem /\ [][NextMem]_vars

(***************************************************************************)
(* query(table, query, projectId): the facade.  The call sends its request *)
(* to the remote backend and awaits the answer; an answer either ends the  *)
(* call, or is healed into one more request, or sends the call to          *)
(* _queryInMemory.                                                         *)
(***************************************************************************)
Tenants == {"A", "B"}
\* The (table, projectId) pairs query() is called with: the bookkeeping table
\* and a resource called "tables" without a project, and a resource table
\* with each project.
Targets ==
    {<<"deployments", NoProject>>, <<SchemasKey, NoProject>>}
    \cup {<<"items", p>> : p \in Tenants}
FacadeWheres == {EmptyRec, Rec1("id", Num(1))}
FacadePayloads == {Rec1("name", Str("a")), Rec2("name", Str("a"), "extra", Str("x"))}
Offsets == {NoOffset, 1}
FacadeUpdates == {Rec2("name", Str("b"), "extra", Str("x"))}
Errors == {UnknownColumn("extra"), SchemaCacheError, Transient}

\* if (table === 'deployments' && method === 'insert' && !data.platform)
\*     data.platform = 'netlify'
WithPlatform(table, method, data) ==
    IF /\ table = "deployments"
       /\ method = "insert"
       /\ ("platform" \notin DOMAIN data \/ Falsy(data["platform"]))
    THEN Spread(data, [c \in {"platform"} |-> Str("netlify")])
    ELSE data

\* The request each case of the switch builds from the query.
FirstRequest(q) ==
    CASE q.method = "select" ->
            Request("select", q.where, EmptyRec, q.limit, q.orderBy, q.offset)
      [] q.method = "insert" ->
            Request("insert", EmptyRec, q.data, NoLimit, NoOrder, NoOffset)
      [] q.method = "update" ->
            Request("update", q.where, q.data, NoLimit, NoOrder, NoOffset)
      [] OTHER ->
            Request("delete", q.where, EmptyRec, NoLimit, NoOrder, NoOffset)

\* error.code === 'PGRST204' && error.message.includes('Could not find'), and
\* message.match(/Could not find the '(.+?)' column/) finds a column name
Healable(err) == err.code = "PGRST204" /\ err.find /\ err.col # ""

\* The same decision with a heal for every method.
NextStepAnyMethod(method, attempt, err) ==
    IF err = NoError THEN "return"
    ELSE IF attempt = 1 /\ Healable(err) THEN "retry"
    ELSE "fallback"

\* The same decision with a heal that does not look at the attempt.
NextStepAlways(method, attempt, err) ==
    IF err = NoError THEN "return"
    ELSE IF method \in {"insert", "update"} /\ Healable(err) THEN "retry"
    ELSE "fallback"

\* What the call does with the answer err to its attempt-th request.
NextStep(method, attempt, err) ==
    IF err = NoError THEN "return"
    ELSE IF method \in {"insert", "update"} /\ attempt = 1 /\ Healable(err) THEN "retry"
    ELSE "fallback"

\* A retry that sends the rejected request again.
SameRequest(req, err) == req

\* const newData = { ...data }; delete newData[columnName]; the same request again
HealedRequest(req, err) == [req EXCEPT !.data = Without(req.data, err.col)]

\* The query object each catch block hands to _queryInMemory.
FallbackQuery(q) ==
    CASE q.method = "select" ->
            Query("select", q.where, EmptyRec, q.limit, q.orderBy, q.offset, NoProject)
      [] q.method = "insert" ->
            Query("insert", EmptyRec, q.data, NoLimit, NoOrder, NoOffset, NoProject)
      [] q.method = "update" ->
            Query("update", q.where, q.data, q.limit, q.orderBy, NoOffset, NoProject)
      [] OTHER ->
            Query("delete", q.where, EmptyRec, q.limit, q.orderBy, NoOffset, NoProject)

\* The records a returned insert adds to the bookkeeping of who inserted what.
InsertedBy(c) ==
    IF c.query.method = "insert" /\ ~c.threw
    THEN {<<c.tenant, c.table, c.result[i]>> : i \in DOMAIN c.result}
    ELSE {}

\* The call record of query(table, q, tenant) as it starts.
Started(table, q, tenant) ==
    [NoCall EXCEPT !.table = table, !.query = q, !.tenant = tenant,
                   !.fresh = table \notin usedTables, !.before = Store,
                   !.remoteBefore = remote[table]]

\* The bound of the model on one more call of query(table, q, tenant).
Admitted(table, q) ==
    /\ call.pc # "await"
    /\ nops < MaxCalls
    /\ ToLowerCase(q.method) = "insert" =>
          /\ Len(Records(Store, table, NoProject)) < MaxRecs
          /\ Len(remote[table].rows) < MaxRecs

Counted(q) == nops' = nops + 1

\* The catch block of a case calls _queryInMemory(table, fq); what that throws
\* is caught by the catch around the switch, which calls
\* _queryInMemory(table, query) on the store the first call left.
CaughtTwice(st, table, fq, q) ==
    UNION {IF out.threw THEN QueryInMemory(out.st, table, q) ELSE {out} :
              out \in QueryInMemory(st, table, fq)}

\* The call ends in _queryInMemory(table, fq) with outcome out.
ServedByFallback(c, fq, out) ==
    /\ inMemoryDb' = [db |-> out.st.db, tables |-> out.st.tables]
    /\ idCounters' = out.st.ids
    /\ LET done == [c EXCEPT !.pc = "done", !.fq = fq,
                             !.served = IF out.threw THEN "none" ELSE "fallback",
                             !.result = out.ret, !.array = out.array,
                             !.threw = out.threw]
       IN /\ call' = done
          /\ inserted' = inserted \cup InsertedBy(done)

\* The inputs of a call: every option the method reads, the others absent.
Calls ==
    {Query("select", w, EmptyRec, NoLimit, NoOrder, NoOffset, NoProject) :
        w \in FacadeWheres}
    \cup {Query("select", EmptyRec, EmptyRec, NoLimit, NoOrder, o, NoProject) :
        o \in Offsets}
    \cup {Query("insert", EmptyRec, d, NoLimit, NoOrder, NoOffset, NoProject) :
        d \in FacadePayloads}
    \cup {Query(m, EmptyRec, Rec1("name", Str("a")), NoLimit, NoOrder, NoOffset, NoProject) :
        m \in {"INSERT", "upsert"}}
    \cup {Query("update", Rec1("id", Num(1)), d, NoLimit, NoOrder, NoOffset, NoProject) :
        d \in FacadeUpdates}
    \cup {Query("delete", Rec1("id", Num(1)), EmptyRec, NoLimit, NoOrder, NoOffset, NoProject)}

\* this.supabase is not set: _queryInMemory(table, query)
QueryUnconfigured ==
    \E target \in Targets, q0 \in Calls :
        LET table == target[1]
            tenant == target[2]
            q == [q0 EXCEPT !.data = WithPlatform(table, q0.method, q0.data)]
        IN /\ ~supabase
           /\ Admitted(table, q)
           /\ \E out \in QueryInMemory(Store, table, q) :
                 ServedByFallback(Started(table, q, tenant), q, out)
           /\ Counted(q)
           /\ usedTables' = usedTables \cup {table}
           /\ UNCHANGED <<autoIds, inflight, columns, ddl, supabase, remote, ret, tracked, run>>

\* The default case of the switch throws; the catch around the switch then
\* calls _queryInMemory(table, query), and what that throws is thrown on.
QueryUnsupported ==
    \E target \in Targets, q0 \in Calls :
        LET table == target[1]
            tenant == target[2]
            q == [q0 EXCEPT !.data = WithPlatform(table, q0.method, q0.data)]
        IN /\ supabase
           /\ q.method \notin Methods
           /\ Admitted(table, q)
           /\ \E out \in QueryInMemory(Store, table, q) :
                 ServedByFallback(Started(table, q, tenant), q, out)
           /\ Counted(q)
           /\ usedTables' = usedTables \cup {table}
           /\ UNCHANGED <<autoIds, inflight, columns, ddl, supabase, remote, ret, tracked, run>>

\* A case of the switch sends its request and awaits the answer.
QueryRemote ==
    \E target \in Targets, q0 \in Calls :
        LET table == target[1]
            tenant == target[2]
            q == [q0 EXCEPT !.data = WithPlatform(table, q0.method, q0.data)]
        IN /\ supabase
           /\ q.method \in Methods
           /\ Admitted(table, q)
           /\ call' = [Started(table, q, tenant) EXCEPT
                          !.pc = "await", !.sent = <<FirstRequest(q)>>]
           /\ Counted(q)
           /\ usedTables' = usedTables \cup {table}
           /\ UNCHANGED <<autoIds, inflight, columns, ddl, inMemoryDb, idCounters, supabase, remote, ret, tracked, run, inserted>>

\* The backend accepts the request in flight: the call returns its rows.
RemoteAccepts ==
    /\ call.pc = "await"
    /\ NextStep(call.query.method, Len(call.sent), NoError) = "return"
    /\ LET req == call.sent[Len(call.sent)]
           r == RemoteApply(remote[call.table].rows, remote[call.table].serial, req)
           done == [call EXCEPT !.pc = "done", !.served = "remote", !.result = r.data]
       IN /\ remote' = [remote EXCEPT ![call.table] = [rows |-> r.rows, serial |-> r.serial]]
          /\ call' = done
          /\ inserted' = inserted \cup InsertedBy(done)
    /\ UNCHANGED <<autoIds, inflight, columns, ddl, inMemoryDb, idCounters, supabase, ret, tracked, run, usedTables, nops>>

\* The backend rejects the request in flight with an error the call heals:
\* one more request goes out.
RemoteRejectsHealed ==
    \E err \in Errors :
        /\ call.pc = "await"
        /\ NextStep(call.query.method, Len(call.sent), err) = "retry"
        /\ call' = [call EXCEPT
                       !.errs = Append(@, err),
                       !.sent = Append(@, HealedRequest(call.sent[Len(call.sent)], err))]
        /\ UNCHANGED <<autoIds, inflight, columns, ddl, inMemoryDb, idCounters, supabase, remote, ret, tracked, run,
                       inserted, usedTables, nops>>

\* The backend rejects the request in flight and the catch block of the case
\* calls _queryInMemory.
RemoteRejectsFallback ==
    \E err \in Errors :
        /\ call.pc = "await"
        /\ NextStep(call.query.method, Len(call.sent), err) = "fallback"
        /\ LET fq == FallbackQuery(call.query)
           IN \E out \in CaughtTwice(Store, call.table, fq, call.query) :
                 ServedByFallback([call EXCEPT !.errs = Append(@, err)], fq, out)
        /\ UNCHANGED <<autoIds, inflight, columns, ddl, supabase, remote, ret, tracked, run, usedTables, nops>>

Next ==
    \/ QueryUnconfigured
    \/ QueryUnsupported
    \/ QueryRemote
    \/ RemoteAccepts
    \/ RemoteRejectsHealed
    \/ RemoteRejectsFallback

Spec == Init /\ [][Next]_vars

(***************************************************************************)
(* Claims about query().                                                   *)
(***************************************************************************)
Returned == call.pc = "done"

\* The remote backend did not serve the returned call: it rejected every
\* request of the call, or there is no client.
RemoteFailed == Returned /\ call.served # "remote"

\* C1 (as claimed): tenant isolation.  A select on a non-global table issued
\* with tenant A returns no record that an insert with another tenant B
\* returned for that table, unless an insert with A returned it too.
C1_TenantIsolation ==
    (/\ Returned
     /\ call.query.method = "select"
     /\ ~call.threw
     /\ call.table \notin GlobalTables
     /\ call.tenant # NoProject)
    => \A i \in DOMAIN call.result :
          \A b \in Tenants \ {NoProject, call.tenant} :
              <<b, call.table, call.result[i]>> \in inserted
              => <<call.tenant, call.table, call.result[i]>> \in inserted

\* The query the caller's operation is on the fallback store: the options
\* of the call, addressed to the caller's tenant.
SameOperation(c) == [c.query EXCEPT !.projectId = c.tenant]

\* C2 (as claimed): silent fallback.  When the remote backend does not serve
\* a select, insert, update or delete, query() raises nothing and returns,
\* as a sequence, what the identical operation (same table, tenant, where,
\* data, orderBy, limit, offset) does on the fallback store.
C2_SilentFallback ==
    (RemoteFailed /\ call.query.method \in Methods)
    => /\ ~call.threw
       /\ call.served = "fallback"
       /\ \E out \in QueryInMemory(call.before, call.table, SameOperation(call)) :
             /\ call.result = out.ret
             /\ Store = out.st

\* C3 (as claimed): fallback transparency.  With the remote backend failing,
\* a select, update or delete on a table no call has used before returns the
\* empty sequence and an insert returns the one new record, which the
\* fallback store then holds in a table it created; nothing is raised.
C3_FallbackTransparency ==
    (RemoteFailed /\ call.query.method \in Methods /\ call.fresh)
    => /\ ~call.threw
       /\ call.array
       /\ call.query.method \in {"select", "update", "delete"} => call.result = <<>>
       /\ call.query.method = "insert" =>
             /\ Len(call.result) = 1
             /\ \A c \in DOMAIN call.query.data : call.result[1][c] = call.query.data[c]
             /\ DOMAIN call.result[1] = DOMAIN call.query.data \cup {"id"}
             /\ call.table \in DOMAIN inMemoryDb.db
             /\ inMemoryDb.db[call.table] = call.result

\* C4 (as claimed): a method other than select, insert, update and delete
\* makes query() raise; no backend serves the call, no request is sent and
\* the fallback store is as it was.
C4_UnsupportedMethod ==
    (Returned /\ call.query.method \notin Methods)
    => /\ call.threw
       /\ call.served = "none"
       /\ call.sent = <<>>
       /\ Store = call.before

\* C5: bounded healing.  A call sends the remote backend at most two
\* requests, and every rejection but the last was followed by exactly one
\* more request: a rejected retry is not healed or retried.
C5_BoundedHealing ==
    /\ Len(call.sent) <= 2
    /\ Len(call.errs) <= Len(call.sent)
    /\ (Len(call.errs) = 2 => Returned /\ call.served # "remote")

C5_Witness ==
    /\ Returned
    /\ Len(call.sent) = 2
    /\ Len(call.errs) = 2
    /\ call.served = "fallback"

\* C6: unknown-column healing.  When the remote backend rejects an insert or
\* update naming column c and accepts the retry, the retry is the first
\* request with exactly c removed from the payload (same method, same
\* filter), query() returns the rows of the backend, an inserted row has no
\* column c, and the fallback store is as it was.
C6_UnknownColumnHealing ==
    (Returned /\ call.served = "remote" /\ Len(call.errs) = 1)
    => LET c == call.errs[1].col
           first == call.sent[1]
           retry == call.sent[2]
           applied == RemoteApply(call.remoteBefore.rows, call.remoteBefore.serial,
                                  [first EXCEPT !.data = [x \in DOMAIN first.data \ {c} |->
                                                             first.data[x]]])
       IN /\ call.query.method \in {"insert", "update"}
          /\ call.errs[1].code = "PGRST204"
          /\ first.data = call.query.data
          /\ retry.method = first.method
          /\ retry.where = call.query.where
          /\ DOMAIN retry.data = DOMAIN first.data \ {c}
          /\ \A x \in DOMAIN retry.data : retry.data[x] = first.data[x]
          /\ call.result = applied.data
          /\ remote[call.table].rows = applied.rows
          /\ call.query.method = "insert" =>
                /\ Len(call.result) = 1
                /\ c \notin DOMAIN call.result[1]
                /\ remote[call.table].rows = Append(call.remoteBefore.rows, call.result[1])
          /\ Store = call.before
          /\ ~call.threw

C6_Witness ==
    /\ Returned
    /\ call.served = "remote"
    /\ Len(call.errs) = 1
    /\ call.query.method = "insert"
    /\ "extra" \in DOMAIN call.query.data
    /\ call.errs[1] = UnknownColumn("extra")
    /\ "extra" \notin DOMAIN call.result[1]

(***************************************************************************)
(* The fallback store called directly (SpecMem).                           *)
(***************************************************************************)
\* C7 (id uniqueness): in every reachable state of the fallback store, after
\* any inserts (with or without an id), updates and deletes, no two records of
\* one (namespace, table) partition have the same id.
C7_IdUniqueness ==
    \A tp \in MemTargets :
        LET recs == Records(Store, tp[1], tp[2])
        IN \A i, j \in DOMAIN recs : i # j => recs[i]["id"] # recs[j]["id"]

OneTo(n) == [i \in 1..n |-> Num(i)]

\* C8 (sequential ids), as stated: n inserts without id, back to back, into an
\* empty partition (tenant partition or global table) get the ids 1, 2, ..., n
\* in insertion order.
C8_SequentialIds == run.on => run.ids = OneTo(Len(run.ids))

\* C8 (sequential ids), amended: n inserts without id, back to back, into an
\* empty partition get the ids 1, ..., n in a tenant partition, and the ids
\* c, c+1, ..., c+n-1 in a table of the global partition whose counter stood at
\* c when the first of them ran (c = 1 as long as no id was assigned in it).
C8_SequentialIdsFromCounter ==
    run.on =>
        /\ run.ids = [i \in 1..Len(run.ids) |-> Num(run.origin + i - 1)]
        /\ UseSchema(run.table, run.projectId) => run.origin = 1
        /\ (\A i \in DOMAIN Records(Store, run.table, run.projectId) :
               Records(Store, run.table, run.projectId)[i]["id"] = run.ids[i])

C8_Witness ==
    /\ run.on
    /\ UseSchema(run.table, run.projectId)
    /\ run.ids = <<Num(1), Num(2)>>

\* v == w of JavaScript written out by cases: equal numbers, equal strings, or
\* a number and a string that spells it.
LooselyEqual(v, w) ==
    \/ v.k = "num" /\ w.k = "num" /\ v.n = w.n
    \/ v.k = "str" /\ w.k = "str" /\ v.s = w.s
    \/ v.k = "num" /\ w.k = "str" /\ w.s \in DOMAIN NumericStrings /\ NumericStrings[w.s] = v.n
    \/ v.k = "str" /\ w.k = "num" /\ v.s \in DOMAIN NumericStrings /\ NumericStrings[v.s] = w.n

Wanted(rec, w) == \A c \in DOMAIN w : c \in DOMAIN rec /\ LooselyEqual(rec[c], w[c])

IsSelect == ret.op = "mem" /\ ToLowerCase(ret.q.method) = "select" /\ ~ret.threw

\* C9 (select filter): a fallback select with where clause w returns exactly the
\* records of the addressed partition that equal w (loosely) in every column of
\* w, in stored order, whatever their other columns hold; an empty w returns
\* all the records.
C9_SelectFilter ==
    (IsSelect /\ ret.q.orderBy = NoOrder /\ ret.q.limit = NoLimit) =>
        /\ ret.result = SelectSeq(ret.pre, LAMBDA rec : Wanted(rec, ret.q.where))
        /\ DOMAIN ret.q.where = {} => ret.result = ret.pre
        /\ Records(Store, ret.table, ret.q.projectId) = ret.pre

C9_Witness ==
    /\ IsSelect
    /\ ret.q.where = Rec1("id", Str("1"))
    /\ Len(ret.pre) = 2
    /\ Len(ret.result) = 1
    /\ ret.result[1]["id"] = Num(1)
    /\ DOMAIN ret.result[1] = {"id", "name"}

SelectById(table, projectId, id) ==
    QueryInMemory(Store, table,
                  Query("select", Rec1("id", id), EmptyRec, NoLimit, NoOrder, NoOffset,
                        projectId))

\* C10 (round trip): a fallback insert of a payload without id into an empty
\* partition returns the payload plus id 1, and a select where {id: 1} that
\* follows returns exactly that record; and a select by the id an insert
\* returned returns the inserted record while no update or delete matched it.
C10_RoundTrip ==
    /\ (ret.op = "mem" /\ ret.q.method = "insert" /\ "id" \notin DOMAIN ret.q.data
           /\ ret.pre = <<>>) =>
          /\ ret.result = <<Spread(ret.q.data, Rec1("id", Num(1)))>>
          /\ \A out \in SelectById(ret.table, ret.q.projectId, Num(1)) :
                ~out.threw /\ out.ret = ret.result
    /\ \A t \in tracked :
          \A out \in SelectById(t.table, t.projectId, t.rec["id"]) :
             ~out.threw /\ \E i \in DOMAIN out.ret : out.ret[i] = t.rec

\* { ...rec, ...d } written out: the fields of d, and the fields of rec that d
\* does not have.
MergedWith(rec, d) ==
    [c \in DOMAIN rec \cup DOMAIN d |-> IF c \in DOMAIN d THEN d[c] ELSE rec[c]]

IsUpdate == ret.op = "mem" /\ ToLowerCase(ret.q.method) = "update"

\* C11 (merge update): a fallback update(where w, data d) returns exactly the
\* matching records, each merged with d (d's fields overwrite, every other
\* field keeps its value), stores each merged record at the position of the
\* original, and leaves the records that do not match as they were.
C11_MergeUpdate ==
    IsUpdate =>
        LET post == Records(Store, ret.table, ret.q.projectId)
            hit == SelectSeq(ret.pre, LAMBDA rec : Wanted(rec, ret.q.where))
        IN /\ ~ret.threw
           /\ ret.result = [i \in DOMAIN hit |-> MergedWith(hit[i], ret.q.data)]
           /\ Len(post) = Len(ret.pre)
           /\ \A i \in DOMAIN post :
                 post[i] = IF Wanted(ret.pre[i], ret.q.where)
                           THEN MergedWith(ret.pre[i], ret.q.data)
                           ELSE ret.pre[i]

C11_Witness ==
    /\ IsUpdate
    /\ ret.q.where = Rec1("id", Num(1))
    /\ ret.q.data = Rec1("name", Str("b"))
    /\ Len(ret.pre) = 2
    /\ ret.pre[1] = Rec2("id", Num(1), "name", Str("a"))
    /\ ret.result = <<Rec2("id", Num(1), "name", Str("b"))>>
    /\ Records(Store, ret.table, ret.q.projectId)[2] = ret.pre[2]

IsDelete == ret.op = "mem" /\ ToLowerCase(ret.q.method) = "delete"

\* A select with no where on the partition the last call addressed.
SelectAll ==
    QueryInMemory(Store, ret.table,
                  Query("select", EmptyRec, EmptyRec, NoLimit, NoOrder, NoOffset,
                        ret.q.projectId))

\* What a delete that removes the records matching w leaves and returns.
DeletesMatching(w) ==
    LET post == Records(Store, ret.table, ret.q.projectId)
        gone == SelectSeq(ret.pre, LAMBDA rec : Wanted(rec, w))
    IN /\ ~ret.threw
       /\ ret.result = gone
       /\ post = SelectSeq(ret.pre, LAMBDA rec : ~Wanted(rec, w))
       /\ \A out \in SelectAll :
             \A i \in DOMAIN out.ret : \A j \in DOMAIN gone : out.ret[i] # gone[j]

\* C12 (delete), as stated: a fallback delete(where w) returns exactly the
\* records matching w, a select that follows includes none of them, and the
\* records that do not match stay in their relative order.
C12_Delete == IsDelete => DeletesMatching(ret.q.where)

(***************************************************************************)
(* Ordered selects of _queryInMemory.                                      *)
(***************************************************************************)
Orders == {[col |-> c, dir |-> d] : c \in {"name", "id"}, d \in {"asc", "desc"}}
Limits == {NoLimit, 1}
SortWheres == {EmptyRec, Rec1("name", Str("a"))}
SortTargets == {<<"items", "A">>}

SortInsertCall ==
    \E target \in SortTargets, data \in Payloads :
        LET q == Query("insert", EmptyRec, data, NoLimit, NoOrder, NoOffset, target[2])
        IN /\ nops < MaxOps
           /\ Len(Records(Store, target[1], target[2])) < MaxRecs
           /\ \E out \in QueryInMemory(Store, target[1], q) :
                 /\ MemReturn(target[1], q, out)
                 /\ nops' = nops + 1

SortSelectCall ==
    \E target \in SortTargets, where \in SortWheres, orderBy \in Orders, limit \in Limits :
        LET q == Query("select", where, EmptyRec, limit, orderBy, NoOffset, target[2])
        IN \E out \in QueryInMemory(Store, target[1], q) :
              /\ MemReturn(target[1], q, out)
              /\ UNCHANGED nops

NextSort == SortInsertCall \/ SortSelectCall

SpecSort == InitMem /\ [][NextSort]_vars

IsOrderedSelect == IsSelect /\ ret.q.orderBy # NoOrder

\* The records the select matched, in stored order.
Matching == SelectSeq(ret.pre, LAMBDA rec : Wanted(rec, ret.q.where))

\* Value v comes before value w in direction dir.
Before(v, w, dir) == IF dir = "asc" THEN JsGt(w, v) ELSE JsGt(v, w)

\* Every record has the column and any two values are equal or one is greater.
Comparable(recs, c) ==
    \A i, j \in DOMAIN recs :
        /\ c \in DOMAIN recs[i]
        /\ \/ recs[i][c] = recs[j][c]
           \/ JsGt(recs[i][c], recs[j][c])
           \/ JsGt(recs[j][c], recs[i][c])

\* How many times record r stands in recs.
Count(recs, r) == Cardinality({i \in DOMAIN recs : recs[i] = r})

StableSort(recs, ob) ==
    LET n == Len(recs)
        p == CHOOSE q \in Perms(n) :
                \A i, j \in 1..n :
                    i < j => /\ ~Ahead(recs[q[j]], recs[q[i]], ob)
                             /\ Tied(recs[q[i]], recs[q[j]], ob) => q[i] < q[j]
    IN [i \in 1..n |-> recs[p[i]]]

\* C14 (stable ties): a fallback select with orderBy over matching records
\* whose values can be compared returns them with the records of equal value
\* in the order they were stored in, for both directions.
C14_StableTies ==
    (IsOrderedSelect /\ Comparable(Matching, ret.q.orderBy.col)) =>
        ret.result = Limited(StableSort(Matching, ret.q.orderBy), ret.q.limit)

(***************************************************************************)
(* The bookkeeping tables under every tenant argument.                     *)
(***************************************************************************)
GlobalTargets == GlobalTables \X ({NoProject} \cup Tenants)
GlobalPayloads == {Rec1("name", Str("a")), Rec2("id", Num(1), "name", Str("b"))}

GlobalInsertCall ==
    \E target \in GlobalTargets, data \in GlobalPayloads :
        LET q == Query("insert", EmptyRec, data, NoLimit, NoOrder, NoOffset, target[2])
        IN /\ nops < MaxOps
           /\ Len(Records(Store, target[1], target[2])) < MaxRecs
           /\ \E out \in QueryInMemory(Store, target[1], q) :
                 /\ MemReturn(target[1], q, out)
                 /\ nops' = nops + 1

GlobalSelectCall ==
    \E target \in GlobalTargets, where \in Wheres :
        LET q == Query("select", where, EmptyRec, NoLimit, NoOrder, NoOffset, target[2])
        IN \E out \in QueryInMemory(Store, target[1], q) :
              /\ MemReturn(target[1], q, out)
              /\ UNCHANGED nops

NextGlobal == GlobalInsertCall \/ GlobalSelectCall

SpecGlobal == InitMem /\ [][NextGlobal]_vars

\* Record rec stands in recs.
Holds(recs, rec) == \E i \in DOMAIN recs : recs[i] = rec

\* C15 (global bookkeeping tables): a record an insert into projects or
\* deployments returned, under whatever tenant argument, stands in the global
\* table of that name and in no tenant partition, and every select on that
\* table whose where clause it matches returns it, whatever the tenant
\* argument of the select; an insert into one of the two tables leaves the
\* tenant partitions as they were.
C15_GlobalTables ==
    /\ \A t \in tracked :
          t.table \in GlobalTables =>
             /\ t.table \in DOMAIN inMemoryDb.db
             /\ Holds(inMemoryDb.db[t.table], t.rec)
             /\ (IsSelect /\ ret.table = t.table /\ Wanted(t.rec, ret.q.where))
                   => Holds(ret.result, t.rec)
    /\ (ret.op = "mem" /\ ret.table \in GlobalTables) =>
          /\ ~ret.threw
          /\ \A s \in DOMAIN inMemoryDb.tables : ret.table \notin DOMAIN inMemoryDb.tables[s]
          /\ ret.pre = Records(Store, ret.table, NoProject)
                         \/ ToLowerCase(ret.q.method) = "insert"

\* A select on projects with tenant argument B returned a record that an
\* insert with tenant argument A put there.
C15_Witness ==
    /\ IsSelect
    /\ ret.table = "projects"
    /\ ret.q.projectId = "B"
    /\ \E t \in tracked :
          /\ t.table = "projects"
          /\ t.projectId = "A"
          /\ Holds(ret.result, t.rec)

(***************************************************************************)
(* Schema operations: createSchema, createTable, _addColumn and            *)
(* createRelationship, next to calls that store records.                   *)
(***************************************************************************)
\* What `await this.supabase.rpc('execute_sql', ...)` comes to: a result
\* without error whose data says success, a result without error whose data
\* says that the statement failed (execute_sql catches the failure and
\* returns it), a result with error, or an exception.  Without a client
\* this.supabase is null and the call throws.
RpcOutcomes == {"ok", "failed", "error", "throws"}
Rpc == IF supabase THEN RpcOutcomes ELSE {"throws"}

\* `if (error)` is not taken; data is not looked at.
Errorless(o) == o \in {"ok", "failed"}

\* The object a schema operation returns; createSchema's has no inMemory.
Structured(success, inMemory) ==
    [object |-> TRUE, success |-> success, message |-> TRUE, inMemory |-> inMemory]

\* `return true`
BareTrue == [object |-> FALSE, success |-> TRUE, message |-> FALSE, inMemory |-> "absent"]

\* The columns argument of createTable: an array of column names, or none.
Cols(names) == [defined |-> TRUE, names |-> names]
UndefinedCols == [defined |-> FALSE, names |-> {}]
ColumnArgs == {UndefinedCols, Cols({"id", "name"})}
ColumnNames == {"name", "extra"}

SchemaTables == {"items"}
SchemaTenants == {"A"}
RelationshipTypes == {"one-to-many", "many-to-many", "one-to-few"}
SupportedTypes == {"one-to-one", "one-to-many", "many-to-one", "many-to-many"}

DdlReturned(op, table, projectId, result) ==
    [op |-> op, table |-> table, projectId |-> projectId, schema |-> SchemaOf(projectId),
     threw |-> FALSE, issued |-> <<>>, rpc |-> "none", result |-> result]

DdlThrew(op, table, projectId) ==
    [NoDdl EXCEPT !.op = op, !.table = table, !.projectId = projectId,
                  !.schema = SchemaOf(projectId), !.threw = TRUE]

\* createSchema(projectId)
CreateSchemaResult(o) == Structured(Errorless(o), "absent")

\* `CREATE SCHEMA IF NOT EXISTS ${schemaName}`
CreateSchemaSQL(projectId) == [kind |-> "schema", schema |-> SchemaOf(projectId), table |-> ""]

\* `CREATE TABLE IF NOT EXISTS ${schemaName}.${tableName} (...)`, schemaName
\* being schemaResult.schema.
CreateTableSQL(table, projectId) ==
    [kind |-> "table", schema |-> SchemaOf(projectId), table |-> table]

\* The table statement handed to the client ahead of the schema statement.
TableThenSchema(table, cols, projectId) ==
    IF ~supabase THEN <<>>
    ELSE IF ~cols.defined THEN <<CreateSchemaSQL(projectId)>>
    ELSE <<CreateTableSQL(table, projectId), CreateSchemaSQL(projectId)>>

\* The statements createTable hands to the client, in order: none without a
\* client, and the schema statement alone when columns.map throws.
TableStatements(table, cols, projectId) ==
    IF ~supabase THEN <<>>
    ELSE IF ~cols.defined THEN <<CreateSchemaSQL(projectId)>>
    ELSE <<CreateSchemaSQL(projectId), CreateTableSQL(table, projectId)>>

CreateSchemaOp ==
    \E projectId \in SchemaTenants, o \in Rpc :
        /\ ddl' = [DdlReturned("createSchema", "", projectId, CreateSchemaResult(o)) EXCEPT
                      !.issued = IF supabase THEN <<CreateSchemaSQL(projectId)>> ELSE <<>>,
                      !.rpc = o]
        /\ UNCHANGED <<autoIds, inflight, inMemoryDb, idCounters, supabase, remote, call, ret, tracked, run,
                       inserted, usedTables, nops, columns>>

\* this.inMemoryDb.tables[schemaName][tableName] = { columns, records: [] }
Registered(st, table, projectId) == WithRecords(st, table, projectId, <<>>)

ColumnsRegistered(table, projectId, cols) ==
    LET pair == <<SchemaOf(projectId), table>>
    IN IF cols.defined
       THEN [x \in DOMAIN columns \cup {pair} |-> IF x = pair THEN cols.names ELSE columns[x]]
       ELSE [x \in DOMAIN columns \ {pair} |-> columns[x]]

\* createTable(tableName, columns, projectId): createSchema first, whatever it
\* returns; columns.map throws when columns is undefined, before any request.
CreateTableOp ==
    \E table \in SchemaTables, cols \in ColumnArgs, projectId \in SchemaTenants, o \in Rpc :
        LET remoteFailed == ~cols.defined \/ ~Errorless(o)
            st == IF remoteFailed THEN Registered(Store, table, projectId) ELSE Store
        IN /\ inMemoryDb' = [db |-> st.db, tables |-> st.tables]
           /\ columns' = IF remoteFailed THEN ColumnsRegistered(table, projectId, cols)
                         ELSE columns
           /\ ddl' = [DdlReturned("createTable", table, projectId,
                                Structured(TRUE, IF remoteFailed THEN "true" ELSE "false"))
                       EXCEPT !.issued = TableStatements(table, cols, projectId),
                              !.rpc = IF cols.defined THEN o ELSE "none"]
           /\ UNCHANGED <<autoIds, inflight, idCounters, supabase, remote, call, ret, tracked, run, inserted,
                          usedTables, nops>>

\* _addColumn(tableName, column, projectId): after a failed request the column
\* joins the columns of the fallback table when that table exists;
\* columns.find throws when the table has no columns, in the try block and
\* again in the catch block.
AddColumnOp ==
    \E table \in SchemaTables, column \in ColumnNames, projectId \in SchemaTenants, o \in Rpc :
        LET pair == <<SchemaOf(projectId), table>>
            exists == HasTable(Store, table, projectId)
        IN /\ IF Errorless(o)
              THEN /\ ddl' = DdlReturned("_addColumn", table, projectId, Structured(TRUE, "false"))
                   /\ UNCHANGED columns
              ELSE IF exists /\ pair \notin DOMAIN columns
              THEN /\ ddl' = DdlThrew("_addColumn", table, projectId)
                   /\ UNCHANGED columns
              ELSE /\ ddl' = DdlReturned("_addColumn", table, projectId, Structured(TRUE, "true"))
                   /\ columns' = IF exists
                                 THEN [columns EXCEPT ![pair] = @ \cup {column}]
                                 ELSE columns
           /\ UNCHANGED <<autoIds, inflight, inMemoryDb, idCounters, supabase, remote, call, ret, tracked, run,
                          inserted, usedTables, nops>>

\* createRelationship(sourceTable, targetTable, type, ...): an unsupported
\* type makes _generateRelationshipSQL throw, which the catch block answers.
CreateRelationshipOp ==
    \E table \in SchemaTables, type \in RelationshipTypes, projectId \in SchemaTenants,
       o \in Rpc :
        LET simulated == type \notin SupportedTypes \/ ~Errorless(o)
        IN /\ ddl' = DdlReturned("createRelationship", table, projectId,
                               Structured(TRUE, IF simulated THEN "true" ELSE "false"))
           /\ UNCHANGED <<autoIds, inflight, inMemoryDb, idCounters, supabase, remote, call, ret, tracked, run,
                          inserted, usedTables, nops, columns>>

\* createRelationship of the other revision: the result of the request is not
\* looked at, `return true`, and the catch block throws the error on.
CreateRelationshipVariantOp ==
    \E table \in SchemaTables, type \in RelationshipTypes, projectId \in SchemaTenants,
       o \in Rpc :
        /\ ddl' = IF type \notin SupportedTypes \/ o = "throws"
                  THEN DdlThrew("createRelationship", table, projectId)
                  ELSE DdlReturned("createRelationship", table, projectId, BareTrue)
        /\ UNCHANGED <<autoIds, inflight, inMemoryDb, idCounters, supabase, remote, call, ret, tracked, run,
                       inserted, usedTables, nops, columns>>

\* _queryInMemory(table, { method: 'insert', data, projectId })
SchemaInsertCall ==
    \E table \in SchemaTables, projectId \in SchemaTenants, data \in GlobalPayloads :
        LET q == Query("insert", EmptyRec, data, NoLimit, NoOrder, NoOffset, projectId)
        IN /\ nops < MaxOps
           /\ Len(Records(Store, table, projectId)) < MaxRecs
           /\ \E out \in QueryInMemory(Store, table, q) :
                 /\ MemReturn(table, q, out)
                 /\ nops' = nops + 1

SchemaCalls ==
    {Query("insert", EmptyRec, Rec1("name", Str("a")), NoLimit, NoOrder, NoOffset, NoProject),
     Query("select", EmptyRec, EmptyRec, NoLimit, NoOrder, NoOffset, NoProject)}

\* query(table, q, projectId) served by the fallback store: without a client,
\* or after the backend rejected the request.
QueryFallbackCall ==
    \E table \in SchemaTables, projectId \in SchemaTenants, q \in SchemaCalls,
       err \in {Transient} :
        LET started == Started(table, q, projectId)
            outs == IF supabase
                    THEN CaughtTwice(Store, table, FallbackQuery(q), q)
                    ELSE QueryInMemory(Store, table, q)
        IN /\ Admitted(table, q)
           /\ \E out \in outs :
                 ServedByFallback(IF supabase
                                  THEN [started EXCEPT !.sent = <<FirstRequest(q)>>,
                                                       !.errs = <<err>>]
                                  ELSE started,
                                  IF supabase THEN FallbackQuery(q) ELSE q, out)
           /\ Counted(q)
           /\ usedTables' = usedTables \cup {table}
           /\ UNCHANGED <<autoIds, inflight, supabase, remote, ret, tracked, run, columns, ddl>>

\* query(table, q, projectId) served by the backend.
QueryRemoteCall ==
    \E table \in SchemaTables, projectId \in SchemaTenants, q \in SchemaCalls :
        LET req == FirstRequest(q)
            r == RemoteApply(remote[table].rows, remote[table].serial, req)
            done == [Started(table, q, projectId) EXCEPT
                        !.pc = "done", !.sent = <<req>>, !.served = "remote",
                        !.result = r.data]
        IN /\ supabase
           /\ Admitted(table, q)
           /\ remote' = [remote EXCEPT ![table] = [rows |-> r.rows, serial |-> r.serial]]
           /\ call' = done
           /\ inserted' = inserted \cup InsertedBy(done)
           /\ Counted(q)
           /\ usedTables' = usedTables \cup {table}
           /\ UNCHANGED <<autoIds, inflight, inMemoryDb, idCounters, supabase, ret, tracked, run, columns, ddl>>

NextSchema ==
    \/ CreateSchemaOp
    \/ CreateTableOp
    \/ AddColumnOp
    \/ CreateRelationshipOp
    \/ CreateRelationshipVariantOp
    \/ SchemaInsertCall
    \/ QueryFallbackCall
    \/ QueryRemoteCall

SpecSchema == Init /\ [][NextSchema]_vars

\* C16 (schema operations never throw): every schema operation returns, for
\* every outcome of its request and for an unsupported relationship type, an
\* object with a boolean success and a message, and with the inMemory flag
\* when it is a table, column or relationship operation.
C16_SchemaOpsNeverThrow ==
    ddl.op # "none" =>
        /\ ~ddl.threw
        /\ ddl.result.object
        /\ ddl.result.success \in BOOLEAN
        /\ ddl.result.message
        /\ ddl.op # "createSchema" => ddl.result.inMemory \in {"true", "false"}

\* C17 (durability): a record a fallback insert returned stands in its
\* partition, with the same fields, until an update or delete matches it.
C17_Durability ==
    \A t \in tracked : Holds(Records(Store, t.table, t.projectId), t.rec)

\* The schema of a request built with this.supabase.from(table): none is
\* named, it is the client's default.
PublicSchema == "public"
RemoteSchema(table, projectId) == PublicSchema

\* const schemaName = useSchema ? `project_${projectId}` : 'public'
FallbackSchema(table, q) ==
    IF UseSchema(table, q.projectId) THEN SchemaOf(q.projectId) ELSE PublicSchema

\* C18 (namespace consistency): when createTable(t, columns, T) has returned
\* and a query(t, ..., T) has been served, the schema the query addressed,
\* in the backend or in the fallback store, is the schema createTable named
\* for the table.
C18_NamespaceConsistency ==
    (/\ ddl.op = "createTable"
     /\ call.pc = "done"
     /\ call.table = ddl.table
     /\ call.tenant = ddl.projectId) =>
        /\ call.served = "remote" => RemoteSchema(call.table, call.tenant) = ddl.schema
        /\ call.served = "fallback" => FallbackSchema(call.table, call.fq) = ddl.schema

(***************************************************************************)
(* The insert case of query() in the revision that also heals a type       *)
(* mismatch (error 22P02).                                                  *)
(***************************************************************************)
\* error.code === '22P02' with 'invalid input syntax for type integer' in the message
IntegerSyntax == [code |-> "22P02", find |-> FALSE, col |-> ""]

HealErrors == {IntegerSyntax, UnknownColumn("extra"), Transient}

\* Date.now()
Clock == {Num(1700), Num(1701)}

HealPayloads ==
    {Rec1("id", Str("p")),
     Rec2("id", Str("p"), "name", Str("a")),
     Rec2("id", Num(1), "name", Str("a")),
     Rec2("name", Str("a"), "extra", Str("x"))}

\* err.code === '22P02' && err.message.includes('invalid input syntax for type integer')
\* && newData.id && typeof newData.id === 'string'
TypeHealable(data, err) ==
    /\ err.code = "22P02"
    /\ "id" \in DOMAIN data
    /\ ~Falsy(data["id"])
    /\ data["id"].k = "str"

\* if (!newData.name) newData.name = newData.id;  newData.id = Date.now()
TypeHealed(data, now) ==
    LET named == IF "name" \notin DOMAIN data \/ Falsy(data["name"])
                 THEN Spread(data, Rec1("name", data["id"]))
                 ELSE data
    IN Spread(named, Rec1("id", now))

\* Whether the insert answers err, the error of its first request, with a retry.
Retries(data, err) == Healable(err) \/ TypeHealable(data, err)

\* The data of the retry.
RetryData(data, err, now) ==
    IF Healable(err) THEN Without(data, err.col) ELSE TypeHealed(data, now)

InsertRequest(data) == Request("insert", EmptyRec, data, NoLimit, NoOrder, NoOffset)

HealQuery(data) == Query("insert", EmptyRec, data, NoLimit, NoOrder, NoOffset, NoProject)

\* query(table, { method: 'insert', data }) answered by the backend, at the
\* first request or at the retry.
HealInsertRemote ==
    \E data \in HealPayloads, errs \in {<<>>} \cup {<<e>> : e \in HealErrors}, now \in Clock :
        LET table == "items"
            q == HealQuery(data)
            sent == IF errs = <<>> THEN <<InsertRequest(data)>>
                    ELSE <<InsertRequest(data), InsertRequest(RetryData(data, errs[1], now))>>
            r == RemoteApply(remote[table].rows, remote[table].serial, sent[Len(sent)])
            done == [Started(table, q, NoProject) EXCEPT
                        !.pc = "done", !.sent = sent, !.errs = errs, !.served = "remote",
                        !.result = r.data]
        IN /\ supabase
           /\ errs # <<>> => Retries(data, errs[1])
           /\ Admitted(table, q)
           /\ remote' = [remote EXCEPT ![table] = [rows |-> r.rows, serial |-> r.serial]]
           /\ call' = done
           /\ inserted' = inserted \cup InsertedBy(done)
           /\ Counted(q)
           /\ usedTables' = usedTables \cup {table}
           /\ UNCHANGED <<autoIds, inflight, inMemoryDb, idCounters, supabase, ret, tracked, run, columns, ddl>>

\* The same call ending in the catch block: the first request failed and was
\* not retried, or the retry failed; _queryInMemory(table, { method, data }).
HealInsertFallback ==
    \E data \in HealPayloads, e1 \in HealErrors, e2 \in {NoError, Transient}, now \in Clock :
        LET table == "items"
            q == HealQuery(data)
            retried == Retries(data, e1)
            sent == IF retried
                    THEN <<InsertRequest(data), InsertRequest(RetryData(data, e1, now))>>
                    ELSE <<InsertRequest(data)>>
            errs == IF retried THEN <<e1, e2>> ELSE <<e1>>
        IN /\ supabase
           /\ retried <=> e2 # NoError
           /\ Admitted(table, q)
           /\ \E out \in QueryInMemory(Store, table, q) :
                 ServedByFallback([Started(table, q, NoProject) EXCEPT
                                      !.sent = sent, !.errs = errs], q, out)
           /\ Counted(q)
           /\ usedTables' = usedTables \cup {table}
           /\ UNCHANGED <<autoIds, inflight, supabase, remote, ret, tracked, run, columns, ddl>>

NextHeal == HealInsertRemote \/ HealInsertFallback

SpecHeal == InitMem /\ [][NextHeal]_vars

\* The insert met a type mismatch on an id that is a string and no number.
MismatchOnStringId ==
    /\ call.pc = "done"
    /\ call.query.method = "insert"
    /\ Len(call.errs) >= 1
    /\ call.errs[1] = IntegerSyntax
    /\ "id" \in DOMAIN call.query.data
    /\ call.query.data["id"].k = "str"
    /\ ToNumber(call.query.data["id"]).k = "nan"

\* C19 (type-mismatch healing): an insert whose first request fails with a
\* type mismatch and whose id is a non-numeric string sends exactly one more
\* request, with a numeric id and with the original id in the name column;
\* when that request fails too the call is served by the fallback store.
C19_TypeMismatchHealing ==
    MismatchOnStringId =>
        /\ Len(call.sent) = 2
        /\ call.sent[2].data["id"].k = "num"
        /\ "name" \in DOMAIN call.sent[2].data
        /\ call.sent[2].data["name"] = call.query.data["id"]
        /\ Len(call.errs) = 2 => call.served = "fallback"
        /\ Len(call.errs) = 1 => call.served = "remote"

(***************************************************************************)
(* Selects of _queryInMemory with limit and offset.                        *)
(***************************************************************************)
PageTargets == {<<"items", "A">>, <<"deployments", NoProject>>}

PageInsertCall ==
    \E target \in PageTargets, data \in GlobalPayloads :
        LET q == Query("insert", EmptyRec, data, NoLimit, NoOrder, NoOffset, target[2])
        IN /\ nops < MaxOps
           /\ Len(Records(Store, target[1], target[2])) < MaxRecs
           /\ \E out \in QueryInMemory(Store, target[1], q) :
                 /\ MemReturn(target[1], q, out)
                 /\ nops' = nops + 1

\* _queryInMemory(table, { method: 'select', where, limit, orderBy, offset }),
\* as the catch block of the select case calls it
PageSelectCall ==
    \E target \in PageTargets, where \in SortWheres, limit \in Limits, offset \in Offsets :
        LET q == Query("select", where, EmptyRec, limit, NoOrder, offset, target[2])
        IN \E out \in QueryInMemory(Store, target[1], q) :
              /\ MemReturn(target[1], q, out)
              /\ UNCHANGED nops

NextPage == PageInsertCall \/ PageSelectCall

SpecPage == InitMem /\ [][NextPage]_vars

\* C20 (pagination parity): a fallback select returns the page the backend
\* returns for the same rows and the same where, limit and offset: the
\* matching records from offset on, limit of them (the default page size
\* without a limit), and without an offset the first limit of them.
C20_PaginationParity ==
    IsSelect => ret.result = RemotePage(Matching, ret.q.limit, ret.q.offset)

(***************************************************************************)
(* More about the heals of query().                                        *)
(***************************************************************************)
\* C22 (healing is limited to insert and update): a select or delete sends the
\* backend one request, the one built from the caller's where, limit, orderBy
\* and offset; when the backend rejects it, whatever the error, no second
\* request goes out and the call is handed to the fallback store.  (Without a
\* client no request goes out at all.)
C22_NoHealForSelectDelete ==
    (Returned /\ call.query.method \in {"select", "delete"}) =>
        /\ Len(call.sent) <= 1
        /\ call.sent # <<>> => call.sent = <<FirstRequest(call.query)>>
        /\ call.sent = <<>> => call.errs = <<>> /\ call.served # "remote"
        /\ Len(call.errs) <= 1
        /\ call.errs # <<>> =>
              /\ call.sent[1].where = call.query.where
              /\ call.served # "remote"
              /\ call.fq = FallbackQuery(call.query)

\* A delete was rejected with the error the heal of insert and update looks
\* for, and was served by the fallback store after that one request.
C22_Witness ==
    /\ Returned
    /\ call.query.method = "delete"
    /\ call.errs = <<UnknownColumn("extra")>>
    /\ Len(call.sent) = 1
    /\ call.served = "fallback"

\* C23 (failed heal escalates): when the retry of an insert or update is
\* rejected too, query() raises nothing and returns what the operation with
\* the caller's payload, not the stripped one, does on the fallback store.
C23_FailedHealEscalates ==
    (Returned /\ Len(call.errs) = 2) =>
        /\ call.query.method \in {"insert", "update"}
        /\ call.fq.data = call.query.data
        /\ call.fq.where = call.query.where
        /\ ~call.threw
        /\ call.served = "fallback"
        /\ \E out \in QueryInMemory(call.before, call.table, call.fq) :
              /\ call.result = out.ret
              /\ Store = out.st

(***************************************************************************)
(* _queryInMemory on partitions that do not exist yet, the name 'tables'   *)
(* among the table names.                                                  *)
(***************************************************************************)
TotalTargets == {<<SchemasKey, NoProject>>, <<"items", NoProject>>, <<"items", "A">>}

\* _queryInMemory(table, { method, where, data, projectId })
TotalCall ==
    \E target \in TotalTargets, method \in Methods, where \in SortWheres,
       data \in GlobalPayloads :
        LET table == target[1]
            q == Query(method, IF method = "insert" THEN EmptyRec ELSE where,
                       IF method \in {"insert", "update"} THEN data ELSE EmptyRec,
                       NoLimit, NoOrder, NoOffset, target[2])
        IN /\ method = "select" \/ nops < MaxOps
           /\ method = "insert" => Len(Records(Store, table, target[2])) < MaxRecs
           /\ method # "insert" => where # EmptyRec \/ data = Rec1("name", Str("a"))
           /\ \E out \in QueryInMemory(Store, table, q) :
                 /\ MemReturn(table, q, out)
                 /\ nops' = IF method = "select" THEN nops ELSE nops + 1

SpecTotal == InitMem /\ [][TotalCall]_vars

\* The fallback store after the step.
StoreAfter == [db |-> inMemoryDb'.db, tables |-> inMemoryDb'.tables, ids |-> idCounters']

\* The call that just returned addressed a partition the store did not have.
OnMissingPartition ==
    /\ ret'.op = "mem"
    /\ ~HasTable(Store, ret'.table, ret'.q.projectId)

\* C25 (fallback totality): a select, update or delete on a partition that
\* does not exist returns the empty sequence, raises nothing and leaves the
\* store as it is; an insert creates the partition and stores the record.
C25_FallbackTotality ==
    [][OnMissingPartition =>
          /\ ~ret'.threw
          /\ ret'.array
          /\ ret'.q.method \in {"select", "update", "delete"} =>
                /\ ret'.result = <<>>
                /\ inMemoryDb' = inMemoryDb
                /\ idCounters' = idCounters
          /\ ret'.q.method = "insert" =>
                /\ Len(ret'.result) = 1
                /\ HasTable(StoreAfter, ret'.table, ret'.q.projectId)
                /\ Records(StoreAfter, ret'.table, ret'.q.projectId) = ret'.result]_vars

(***************************************************************************)
(* The ids that inserts without id are given, deletes in between.          *)
(***************************************************************************)
MaxIdOps == 4

IdTargets == {<<"items", "A">>, <<"deployments", NoProject>>, <<"projects", "B">>}
IdWheres == {Rec1("name", Str("a")), Rec1("id", Num(1))}

\* The partition (table, projectId) addresses.
PartitionOf(table, projectId) ==
    <<table, IF UseSchema(table, projectId) THEN projectId ELSE NoProject>>

\* The ids given so far, the one of the insert (table, q) that returned out added.
AutoIdsAfter(table, q, out) ==
    LET key == PartitionOf(table, q.projectId)
        before == IF key \in DOMAIN autoIds THEN autoIds[key] ELSE <<>>
    IN IF NoId(q.data) /\ ~out.threw
       THEN [k \in DOMAIN autoIds \cup {key} |->
                IF k = key THEN Append(before, out.ret[1]["id"]) ELSE autoIds[k]]
       ELSE autoIds

IdsInsertCall ==
    \E target \in IdTargets, data \in GlobalPayloads :
        LET q == Query("insert", EmptyRec, data, NoLimit, NoOrder, NoOffset, target[2])
        IN /\ nops < MaxIdOps
           /\ Len(Records(Store, target[1], target[2])) < MaxRecs
           /\ \E out \in QueryInMemory(Store, target[1], q) :
                 /\ MemStep(target[1], q, out)
                 /\ autoIds' = AutoIdsAfter(target[1], q, out)
                 /\ nops' = nops + 1

IdsDeleteCall ==
    \E target \in IdTargets, where \in IdWheres :
        LET q == Query("delete", where, EmptyRec, NoLimit, NoOrder, NoOffset, target[2])
        IN /\ nops < MaxIdOps
           /\ \E out \in QueryInMemory(Store, target[1], q) :
                 /\ MemReturn(target[1], q, out)
                 /\ nops' = nops + 1

NextIds == IdsInsertCall \/ IdsDeleteCall

SpecIds == InitMem /\ [][NextIds]_vars

\* No id of ids is smaller than one given before it.
NonDecreasing(ids) ==
    \A i, j \in DOMAIN ids :
        i < j => ids[i].k = "num" /\ ids[j].k = "num" /\ ids[i].n <= ids[j].n

Increasing(ids) ==
    \A i, j \in DOMAIN ids :
        i < j => ids[i].k = "num" /\ ids[j].k = "num" /\ ids[i].n < ids[j].n

\* C21 (monotone auto-assigned ids): in every partition the ids given by
\* successive inserts without id never decrease, whatever deletes come
\* between the inserts.
C21_MonotoneIds == \A key \in DOMAIN autoIds : NonDecreasing(autoIds[key])

\* C24 (global id counter): in projects and deployments the ids given by
\* inserts without id increase strictly, so that none is given twice, also
\* when the record that carried it has been deleted.
C24_GlobalIdCounter ==
    \A key \in DOMAIN autoIds : key[1] \in GlobalTables => Increasing(autoIds[key])

\* An insert into deployments found the table emptied by a delete and was
\* given id 2, after id 1 had been given.
C24_Witness ==
    /\ ret.op = "mem"
    /\ ret.q.method = "insert"
    /\ ret.table = "deployments"
    /\ ret.pre = <<>>
    /\ <<"deployments", NoProject>> \in DOMAIN autoIds
    /\ autoIds[<<"deployments", NoProject>>] = <<Num(1), Num(2)>>

\* C26 (namespace before table): a createTable call with a client hands the
\* CREATE SCHEMA IF NOT EXISTS statement of the tenant's namespace to the
\* backend first, every CREATE TABLE statement it hands over comes after that
\* statement and names the same namespace, and the table it registers in the
\* fallback store is registered under that namespace, which is the one it
\* returns.
C26_NamespaceBeforeTable ==
    ddl.op = "createTable" =>
        /\ supabase => /\ ddl.issued # <<>>
                       /\ ddl.issued[1] = CreateSchemaSQL(ddl.projectId)
        /\ \A i \in DOMAIN ddl.issued :
              /\ ddl.issued[i].schema = SchemaOf(ddl.projectId)
              /\ ddl.issued[i].kind = "table" =>
                    /\ ddl.issued[i].table = ddl.table
                    /\ \E j \in 1..(i - 1) : ddl.issued[j] = CreateSchemaSQL(ddl.projectId)
        /\ ddl.schema = SchemaOf(ddl.projectId)
        /\ ddl.result.inMemory = "true" =>
              SchemaOf(ddl.projectId) \in DOMAIN inMemoryDb.tables
              /\ ddl.table \in DOMAIN inMemoryDb.tables[SchemaOf(ddl.projectId)]

\* createTable handed both statements over, the table statement came back
\* with an error, and the table is registered in the fallback store.
C26_Witness ==
    /\ ddl.op = "createTable"
    /\ Len(ddl.issued) = 2
    /\ ddl.rpc = "error"
    /\ ddl.result.inMemory = "true"
    /\ HasTable(Store, ddl.table, ddl.projectId)

\* C27 (the degraded flag is truthful): createTable returns inMemory: false
\* only when the table statement succeeded in the backend, a failure that
\* execute_sql reports in its result value included, and inMemory: true
\* exactly when it registered the table in the fallback store.
C27_DegradedFlagTruthful ==
    ddl.op = "createTable" =>
        /\ ddl.result.inMemory = "false" => ddl.rpc = "ok"
        /\ ddl.result.inMemory \in {"true", "false"}
        /\ ddl.result.inMemory = "true" => HasTable(Store, ddl.table, ddl.projectId)

\* The call of the step addressed another partition than the global one of t.
OtherThanGlobal(t) == PartitionOf(ret'.table, ret'.q.projectId) # <<t, NoProject>>

\* The call of the step addressed another partition than table t of schema s.
OtherThanTenant(s, t) ==
    LET key == PartitionOf(ret'.table, ret'.q.projectId)
    IN ~(key[1] = t /\ key[2] # NoProject /\ SchemaOf(key[2]) = s)

\* C29 (partition frame): a fallback select, insert, update or delete leaves
\* every partition other than the one it addresses as it was, records and
\* existence, and leaves the id counter of every other table as it was.
C29_PartitionFrame ==
    [][ret'.op = "mem" =>
          /\ \A t \in DOMAIN inMemoryDb.db \cup DOMAIN inMemoryDb'.db :
                OtherThanGlobal(t) =>
                    /\ t \in DOMAIN inMemoryDb.db \cap DOMAIN inMemoryDb'.db
                    /\ inMemoryDb'.db[t] = inMemoryDb.db[t]
          /\ \A s \in DOMAIN inMemoryDb.tables \cup DOMAIN inMemoryDb'.tables :
                LET old == IF s \in DOMAIN inMemoryDb.tables
                           THEN inMemoryDb.tables[s] ELSE [t \in {} |-> <<>>]
                    new == IF s \in DOMAIN inMemoryDb'.tables
                           THEN inMemoryDb'.tables[s] ELSE [t \in {} |-> <<>>]
                IN \A t \in DOMAIN old \cup DOMAIN new :
                      OtherThanTenant(s, t) =>
                          /\ t \in DOMAIN old \cap DOMAIN new
                          /\ new[t] = old[t]
          /\ \A t \in DOMAIN idCounters \cup DOMAIN idCounters' :
                t # ret'.table =>
                    /\ t \in DOMAIN idCounters \cap DOMAIN idCounters'
                    /\ idCounters'[t] = idCounters[t]]_vars

\* An insert into a tenant's table has returned while the table of the same
\* name that belongs to no tenant holds a record.
C29_Witness ==
    /\ ret.op = "mem"
    /\ ret.q.method = "insert"
    /\ ret.table = "items"
    /\ ret.q.projectId = "A"
    /\ ~ret.threw
    /\ Len(Records(Store, "items", "A")) >= 1
    /\ Len(Records(Store, "items", NoProject)) >= 1

(***************************************************************************)
(* Remote selects with limit and offset.                                   *)
(***************************************************************************)
RangeOffsets == {NoOffset, 0, 1, 2}
RangeLimits == {NoLimit, 1, 2}

\* query('items', { method: 'insert', data }) answered by the backend.
RangeInsertCall ==
    \E data \in GlobalPayloads :
        LET q == Query("insert", EmptyRec, data, NoLimit, NoOrder, NoOffset, NoProject)
            req == FirstRequest(q)
            r == RemoteApply(remote["items"].rows, remote["items"].serial, req)
            done == [Started("items", q, NoProject) EXCEPT
                        !.pc = "done", !.sent = <<req>>, !.served = "remote",
                        !.result = r.data]
        IN /\ supabase
           /\ Len(remote["items"].rows) < MaxRecs + 1
           /\ remote' = [remote EXCEPT !["items"] = [rows |-> r.rows, serial |-> r.serial]]
           /\ call' = done
           /\ inserted' = inserted \cup InsertedBy(done)
           /\ usedTables' = usedTables \cup {"items"}
           /\ UNCHANGED <<autoIds, inflight, inMemoryDb, idCounters, supabase, ret, tracked,
                          run, nops, columns, ddl>>

\* query('items', { method: 'select', where, limit, orderBy, offset })
\* answered by the backend.
RangeSelectCall ==
    \E where \in SortWheres, limit \in RangeLimits, offset \in RangeOffsets,
       orderBy \in {NoOrder, [col |-> "name", dir |-> "asc"]} :
        LET q == Query("select", where, EmptyRec, limit, orderBy, offset, NoProject)
            req == FirstRequest(q)
            r == RemoteApply(remote["items"].rows, remote["items"].serial, req)
        IN /\ supabase
           /\ call' = [Started("items", q, NoProject) EXCEPT
                          !.pc = "done", !.sent = <<req>>, !.served = "remote",
                          !.result = r.data]
           /\ usedTables' = usedTables \cup {"items"}
           /\ UNCHANGED <<autoIds, inflight, inMemoryDb, idCounters, supabase, remote, ret,
                          tracked, run, inserted, nops, columns, ddl>>

NextRange == RangeInsertCall \/ RangeSelectCall

SpecRange == InitMem /\ [][NextRange]_vars

\* A select with an offset was answered by the backend.
RemoteSelectWithOffset ==
    /\ call.pc = "done"
    /\ call.served = "remote"
    /\ call.query.method = "select"
    /\ call.query.offset # NoOffset

\* C30 (remote page range): a remote select with offset o asks for the rows
\* of the range [o, o + l - 1], l being the limit of the query or 10 without
\* one, in the one request that also carries the where clause, the order and
\* the limit of the query; the rows of that range among the matching ones
\* are what it returns.
C30_RemotePageRange ==
    RemoteSelectWithOffset =>
        LET o == call.query.offset
            l == IF call.query.limit # NoLimit THEN call.query.limit ELSE DefaultPage
            req == call.sent[1]
        IN /\ Len(call.sent) = 1
           /\ req.where = call.query.where
           /\ req.orderBy = call.query.orderBy
           /\ req.limit = call.query.limit
           /\ RangeOf(req.limit, req.offset) = [from |-> o, to |-> o + l - 1]
           /\ call.result = RowsOf(Filter(call.remoteBefore.rows, call.query.where),
                                   [from |-> o, to |-> o + l - 1])

(***************************************************************************)
(* Several query() calls in flight at once.  A call gives up control only  *)
(* at an await on the backend; what it does between two awaits, the whole  *)
(* of _queryInMemory included, is one step.                                *)
(***************************************************************************)
MaxInflight == 3

ConcurrentPayloads == {Rec1("name", Str("a")), Rec2("name", Str("a"), "extra", Str("x"))}
ConcurrentErrors == {UnknownColumn("extra"), Transient}

\* The store as the call finds it when it was at its first await.
StoreAtStart(c) == c.before

\* The store a call reads and writes in its catch block: this.inMemoryDb and
\* this.idCounters as they are when the block runs.
StoreSeenBy(c) == Store

\* query('items', { method: 'insert', data }) sends its request and awaits.
ConcurrentStart ==
    \E data \in ConcurrentPayloads :
        LET q == Query("insert", EmptyRec, data, NoLimit, NoOrder, NoOffset, NoProject)
        IN /\ supabase
           /\ nops < MaxInflight
           /\ inflight' = inflight \cup
                 {[caller |-> nops + 1,
                   c |-> [Started("items", q, NoProject) EXCEPT
                             !.pc = "await", !.sent = <<FirstRequest(q)>>]]}
           /\ nops' = nops + 1
           /\ usedTables' = usedTables \cup {"items"}
           /\ UNCHANGED <<autoIds, columns, ddl, inMemoryDb, idCounters, supabase, remote,
                          call, ret, tracked, run, inserted>>

\* The backend accepts the request of one of the calls in flight.
ConcurrentAccepts ==
    \E f \in inflight :
        LET req == f.c.sent[Len(f.c.sent)]
            r == RemoteApply(remote[f.c.table].rows, remote[f.c.table].serial, req)
            done == [f.c EXCEPT !.pc = "done", !.served = "remote", !.result = r.data]
        IN /\ remote' = [remote EXCEPT ![f.c.table] = [rows |-> r.rows, serial |-> r.serial]]
           /\ call' = done
           /\ inserted' = inserted \cup InsertedBy(done)
           /\ inflight' = inflight \ {f}
           /\ UNCHANGED <<autoIds, columns, ddl, inMemoryDb, idCounters, supabase, ret,
                          tracked, run, usedTables, nops>>

\* The backend rejects the request of one of the calls in flight with an error
\* the call heals: its second request goes out and it awaits again.
ConcurrentRejectsHealed ==
    \E f \in inflight, err \in ConcurrentErrors :
        /\ NextStep(f.c.query.method, Len(f.c.sent), err) = "retry"
        /\ inflight' = (inflight \ {f}) \cup
              {[f EXCEPT !.c.errs = Append(@, err),
                         !.c.sent = Append(@, HealedRequest(f.c.sent[Len(f.c.sent)], err))]}
        /\ UNCHANGED <<autoIds, columns, ddl, inMemoryDb, idCounters, supabase, remote, call,
                       ret, tracked, run, inserted, usedTables, nops>>

\* The backend rejects the request of one of the calls in flight and the catch
\* block of the case calls _queryInMemory.
ConcurrentRejectsFallback ==
    \E f \in inflight, err \in ConcurrentErrors :
        /\ NextStep(f.c.query.method, Len(f.c.sent), err) = "fallback"
        /\ LET fq == FallbackQuery(f.c.query)
           IN \E out \in CaughtTwice(StoreSeenBy(f.c), f.c.table, fq, f.c.query) :
                 /\ ServedByFallback([f.c EXCEPT !.errs = Append(@, err)], fq, out)
                 /\ autoIds' = AutoIdsAfter(f.c.table, fq, out)
        /\ inflight' = inflight \ {f}
        /\ UNCHANGED <<columns, ddl, supabase, remote, ret, tracked, run, usedTables, nops>>

NextConcurrent ==
    \/ ConcurrentStart
    \/ ConcurrentAccepts
    \/ ConcurrentRejectsHealed
    \/ ConcurrentRejectsFallback

SpecConcurrent == InitMem /\ [][NextConcurrent]_vars

\* The ids the fallback store gave to the inserts into items.
GivenIds ==
    IF <<"items", NoProject>> \in DOMAIN autoIds THEN autoIds[<<"items", NoProject>>]
    ELSE <<>>

\* C28 (atomic fallback operations under concurrency): whatever the order in
\* which the backend answers the calls in flight, the inserts without id that
\* the fallback store served were given pairwise distinct ids, and the
\* partition holds one record for each of them, under the id it was given.
C28_AtomicFallback ==
    LET recs == Records(Store, "items", NoProject)
    IN /\ \A i, j \in DOMAIN GivenIds : i # j => GivenIds[i] # GivenIds[j]
       /\ Len(recs) = Len(GivenIds)
       /\ \A i \in DOMAIN GivenIds : recs[i]["id"] = GivenIds[i]

\* Two calls were in flight together, the backend rejected both, and the
\* fallback store served the second after the first.
C28_Witness ==
    /\ Len(GivenIds) = 2
    /\ call.pc = "done"
    /\ call.served = "fallback"
    /\ call.before = InitStore
    /\ Len(Records(Store, "items", NoProject)) = 2

(***************************************************************************)
(* Selects of _queryInMemory with a limit, with and without orderBy.       *)
(***************************************************************************)
LimitValues == {NoLimit, 0, 1, 2}
LimitOrders == {NoOrder, [col |-> "name", dir |-> "asc"], [col |-> "name", dir |-> "desc"]}

LimitInsertCall ==
    \E data \in GlobalPayloads :
        LET q == Query("insert", EmptyRec, data, NoLimit, NoOrder, NoOffset, "A")
        IN /\ nops < MaxOps
           /\ Len(Records(Store, "items", "A")) < MaxRecs + 1
           /\ \E out \in QueryInMemory(Store, "items", q) :
                 /\ MemReturn("items", q, out)
                 /\ nops' = nops + 1

LimitSelectCall ==
    \E where \in SortWheres, orderBy \in LimitOrders, limit \in LimitValues :
        LET q == Query("select", where, EmptyRec, limit, orderBy, NoOffset, "A")
        IN \E out \in QueryInMemory(Store, "items", q) :
              /\ MemReturn("items", q, out)
              /\ UNCHANGED nops

NextLimit == LimitInsertCall \/ LimitSelectCall

SpecLimit == InitMem /\ [][NextLimit]_vars

\* The arrangements the matching records can have after the order-by.
Ordered ==
    IF ret.q.orderBy = NoOrder THEN {Matching} ELSE SortOutcomes(Matching, ret.q.orderBy)

\* C31 (limit): a fallback select with limit l returns at most l records, the
\* first l of the matching records as the order-by arranged them (all of
\* them when they are fewer than l); without a limit it returns all the
\* matching records so arranged.
C31_Limit ==
    IsSelect =>
        \E s \in Ordered :
            IF ret.q.limit # NoLimit
            THEN /\ Len(ret.result) <= ret.q.limit
                 /\ ret.result = SubSeq(s, 1, Min(Len(s), ret.q.limit))
            ELSE ret.result = s

(***************************************************************************)
(* Termination of query(): every request the call awaits is answered, by   *)
(* rows or by an error of the backend's choice.                            *)
(***************************************************************************)
LiveCalls ==
    {Query("select", EmptyRec, EmptyRec, NoLimit, NoOrder, NoOffset, NoProject),
     Query("insert", EmptyRec, Rec2("name", Str("a"), "extra", Str("x")), NoLimit, NoOrder,
           NoOffset, NoProject),
     Query("update", Rec1("id", Num(1)), Rec2("name", Str("b"), "extra", Str("x")), NoLimit,
           NoOrder, NoOffset, NoProject),
     Query("delete", Rec1("id", Num(1)), EmptyRec, NoLimit, NoOrder, NoOffset, NoProject)}
LiveErrors == {UnknownColumn("extra"), UnknownColumn("name"), Transient}
LiveTables == {"items", SchemasKey}

\* A retry that takes the place of the rejected request, as a first attempt.
RetriedInPlace(c, err) ==
    [c EXCEPT !.errs = <<err>>, !.sent = <<HealedRequest(c.sent[Len(c.sent)], err)>>]

\* The call after its rejected request was healed: the retry is its second
\* request.
Retried(c, err) ==
    [c EXCEPT !.errs = Append(@, err),
              !.sent = Append(@, HealedRequest(c.sent[Len(c.sent)], err))]

\* query(table, q) sends its request and awaits the answer.
LiveStart ==
    \E table \in LiveTables, q \in LiveCalls :
        /\ supabase
        /\ Admitted(table, q)
        /\ call' = [Started(table, q, NoProject) EXCEPT
                       !.pc = "await", !.sent = <<FirstRequest(q)>>]
        /\ Counted(q)
        /\ usedTables' = usedTables \cup {table}
        /\ UNCHANGED <<autoIds, inflight, columns, ddl, inMemoryDb, idCounters, supabase,
                       remote, ret, tracked, run, inserted>>

\* The backend rejects the request in flight with an unknown column, and the
\* call sends its retry.
LiveRejectsHealed ==
    \E err \in LiveErrors :
        /\ call.pc = "await"
        /\ NextStep(call.query.method, Len(call.sent), err) = "retry"
        /\ call' = Retried(call, err)
        /\ UNCHANGED <<autoIds, inflight, columns, ddl, inMemoryDb, idCounters, supabase,
                       remote, ret, tracked, run, inserted, usedTables, nops>>

\* The backend rejects the request in flight and the call goes to the
\* fallback store.
LiveRejectsFallback ==
    \E err \in LiveErrors :
        /\ call.pc = "await"
        /\ NextStep(call.query.method, Len(call.sent), err) = "fallback"
        /\ LET fq == FallbackQuery(call.query)
           IN \E out \in CaughtTwice(Store, call.table, fq, call.query) :
                 ServedByFallback([call EXCEPT !.errs = Append(@, err)], fq, out)
        /\ UNCHANGED <<autoIds, inflight, columns, ddl, supabase, remote, ret, tracked, run,
                       usedTables, nops>>

\* The backend answers the request in flight.
Answered == RemoteAccepts \/ LiveRejectsHealed \/ LiveRejectsFallback

NextLive == LiveStart \/ RemoteAccepts \/ LiveRejectsHealed \/ LiveRejectsFallback

SpecLive == InitMem /\ [][NextLive]_vars /\ WF_vars(Answered)

\* C32 (termination): when every request is answered, a query() call that
\* awaits the backend comes to its end, returning or throwing.
C32_Termination == (call.pc = "await") ~> (call.pc = "done")

\* A call has come to its end after its request and its retry were rejected.
C32_Witness ==
    /\ call.pc = "done"
    /\ Len(call.sent) = 2
    /\ Len(call.errs) = 2
    /\ call.served = "fallback"

(***************************************************************************)
(* More about query() with a backend that serves some calls and not        *)
(* others.                                                                 *)
(***************************************************************************)
\* No update or delete that a call can issue matches the record.
NeverTouched(rec) ==
    \A q \in Calls : q.method \in {"update", "delete"} => ~Matches(rec, q.where)

\* A select without limit and offset has returned.
PlainSelectReturned ==
    /\ Returned
    /\ call.query.method = "select"
    /\ ~call.threw
    /\ call.query.limit = NoLimit
    /\ call.query.offset = NoOffset

\* C33 (read-your-writes through the facade): whichever backend serves each
\* call, a select returns every record that an insert on the same table and
\* tenant returned before, that matches the where clause of the select and
\* that no update or delete has matched.
C33_ReadYourWrites ==
    PlainSelectReturned =>
        \A x \in inserted :
            (/\ x[1] = call.tenant
             /\ x[2] = call.table
             /\ Matches(x[3], call.query.where)
             /\ NeverTouched(x[3]))
            => \E i \in DOMAIN call.result : call.result[i] = x[3]

\* C34 (select is read-only): a fallback select, with any where, orderBy and
\* limit, leaves the addressed partition as it was, the records and their
\* stored order, and leaves the id counter of the table as it was.
C34_SelectReadOnly ==
    IsSelect =>
        /\ Records(Store, ret.table, ret.q.projectId) = ret.pre
        /\ CounterOf(Store, ret.table) = ret.preIds

\* What a select with the where clause of the call of the step returns on the
\* store as it is before the step.
SelectedBefore ==
    {out.ret : out \in QueryInMemory(Store, ret'.table,
                          Query("select", ret'.q.where, EmptyRec, NoLimit, NoOrder,
                                NoOffset, ret'.q.projectId))}

\* C35 (uniform match semantics): for every where clause w, the empty one
\* included, the records a fallback delete(w) returns and removes are the
\* records that select(w) returns immediately before it, and the records a
\* fallback update(w, d) merges with d and returns are those same records.
C35_UniformMatch ==
    [][(ret'.op = "mem" /\ ~ret'.threw) =>
          \A sel \in SelectedBefore :
              /\ ret'.q.method = "delete" =>
                    /\ ret'.result = sel
                    /\ Len(Records(StoreAfter, ret'.table, ret'.q.projectId))
                          = Len(ret'.pre) - Len(sel)
                    /\ \A i \in DOMAIN sel :
                          Count(Records(StoreAfter, ret'.table, ret'.q.projectId), sel[i])
                             < Count(ret'.pre, sel[i])
              /\ ret'.q.method = "update" =>
                    ret'.result = [i \in DOMAIN sel |-> MergedWith(sel[i], ret'.q.data)]]_vars

\* C36 (exactly one backend, exactly once): a query() call that the backend
\* served leaves the fallback store as it was; a call that it did not serve
\* leaves the store as one application of its operation to the store leaves
\* it, and returns what that application returns; an insert adds at most one
\* record to the fallback store.
C36_OneBackendOnce ==
    Returned =>
        /\ call.served = "remote" => Store = call.before
        /\ call.served # "remote" =>
              \E out \in QueryInMemory(call.before, call.table,
                                       IF call.errs = <<>> THEN call.query ELSE call.fq) :
                  /\ Store = out.st
                  /\ call.result = out.ret
                  /\ call.threw = out.threw
        /\ ToLowerCase(call.query.method) = "insert" =>
              Len(Records(Store, call.table, NoProject))
                 <= Len(Records(call.before, call.table, NoProject)) + 1

\* An insert whose payload has an id field has returned.
InsertWithIdField ==
    /\ ret.op = "mem"
    /\ ToLowerCase(ret.q.method) = "insert"
    /\ ~ret.threw
    /\ "id" \in DOMAIN ret.q.data

\* C37 (explicit ids are kept): a fallback insert whose payload has an id
\* field, whatever its value, returns and stores the record with that id and
\* leaves the id counter of the table as it was.
C37_ExplicitIdsKept ==
    InsertWithIdField =>
        LET post == Records(Store, ret.table, ret.q.projectId)
        IN /\ ret.result = <<ret.q.data>>
           /\ post = Append(ret.pre, ret.q.data)
           /\ CounterOf(Store, ret.table) = ret.preIds

====
